---- MODULE Spec2Model ----
(***************************************************************************)
(* Model of proton-mcp-server: the recurrence expander                     *)
(* (src/src/lib/rruleExpander.ts), the feed decoder                        *)
(* (src/src/lib/icsParser.ts), get_events with its caches                  *)
(* (src/src/tools/CalendarTool.ts), and the execute method of delete_mail  *)
(* and move_mail (src/src/tools/DeletemailTool.ts).                        *)
(*                                                                         *)
(* Time.  A JavaScript Date is modelled as an integer number of ticks      *)
(* since 1970-01-01 00:00 local time; a day has DAY_MS ticks.  Dates are   *)
(* naive wall-clock values of a zone without clock changes, at the         *)
(* resolution the ICS date-time forms have (whole seconds and coarser), so *)
(* withTime, which keeps hours, minutes and seconds, keeps the whole time  *)
(* of day.  Calendar fields are computed with the proleptic Gregorian      *)
(* calendar, as ECMAScript does, including the normalisation of            *)
(* out-of-range month and day arguments of new Date(y, m, d).              *)
(*                                                                         *)
(* Optional values (x?: T) are sequences of length 0 or 1.                 *)
(***************************************************************************)
EXTENDS Integers, Sequences, FiniteSets, TLC

VARIABLES
  event,          \* the template CalendarEvent passed to expandRecurring
  windowStart,    \* Date
  windowEnd,      \* Date
  excludedTimes,  \* Set<number>
  results,        \* CalendarEvent[] returned by expandRecurring
  pc,             \* "ready" before the call, "done" after it returned; while
                  \* the call is followed step by step: "ff" in the
                  \* fast-forward loop, "loop" in the main loop; in get_events:
                  \* "fetched", then "parsed", then "expanded"
  locals,         \* the locals of a call followed step by step: [i, skip] of
                  \* the fast-forward loop and the state of the main loop,
                  \* loop = [iter, anchor, results, totalCount, done]
  text,           \* the ICS text of a feed, as its physical lines
  allEvents,      \* CalendarEvent[] returned by parseICS(text)
  now,            \* new Date() when expandAllRecurring runs
  occurrences,    \* CalendarEvent[] returned by expandAllRecurring(allEvents)
  ruleStr,        \* the rule string passed to parseRRule, as its KEY=VALUE
                  \* pairs with the values as texts
  parsedRule,     \* <<>> before parseRRule returned, then <<its result>>
  icsCache,       \* Map<string, CacheEntry>: url -> <<>> or <<[events, expiresAt]>>
  recurringCache, \* Map<string, CacheEntry>, likewise
  clock,          \* Date.now(), in minutes
  served,         \* url -> the number of the feed text the server holds
  calls,          \* the get_events calls: [pc, url, allParsed, recurringOccurrences]
  exec,           \* an execute call of delete_mail or move_mail: its input,
                  \* its position and what it returned
  imap            \* the IMAP server and client: mailboxes, the mailbox lock,
                  \* and the log of the client calls and their completions

\* the feed-level variables (get_events) and those of one call of expandRecurring
feedVars == <<text, allEvents, now, occurrences>>
callVars == <<event, windowStart, windowEnd, excludedTimes, results, locals>>
\* the variables of a call of parseRRule on the text of a rule
ruleVars == <<ruleStr, parsedRule>>
\* the variables the expander and the decoding of a feed leave alone
\* the module-level caches of CalendarTool.ts, the clock, the remote feeds and
\* the calls of get_events in progress
cacheVars == <<icsCache, recurringCache, clock, served, calls>>
\* the variables of delete_mail and move_mail
mailVars == <<exec, imap>>
otherVars == <<ruleVars, cacheVars, mailVars>>

vars == <<event, windowStart, windowEnd, excludedTimes, results, pc, locals,
          text, allEvents, now, occurrences, ruleStr, parsedRule,
          icsCache, recurringCache, clock, served, calls, exec, imap>>

-----------------------------------------------------------------------------
(* Bounds of the model *)

\* ticks per day: the resolution of the time of day
TicksPerDay == 2
\* largest INTERVAL drawn
MaxInterval == 2
\* largest COUNT drawn
MaxCount == 3
\* longest text escaped and unescaped
MaxTextLen == 3

-----------------------------------------------------------------------------
(* The ECMAScript Date built-in, on local wall-clock fields *)

DAY_MS == TicksPerDay

Max(a, b) == IF a >= b THEN a ELSE b

\* Days from 1970-01-01 to the first day of month m (0-based, any integer:
\* months outside 0..11 carry into the year) of year y, plus d - 1.
\* This is MakeDay of new Date(y, m, d): d outside the month carries over.
MakeDay(y, m, d) ==
  LET yr  == y + (m \div 12)
      mon == (m % 12) + 1
      yy  == IF mon <= 2 THEN yr - 1 ELSE yr
      era == yy \div 400
      yoe == yy - era * 400
      mp  == IF mon > 2 THEN mon - 3 ELSE mon + 9
      doy == (153 * mp + 2) \div 5
      doe == yoe * 365 + (yoe \div 4) - (yoe \div 100) + doy
  IN  era * 146097 + doe - 719468 + (d - 1)

\* new Date(y, m, d, <time of day t>)
NewDate(y, m, d, t) == MakeDay(y, m, d) * DAY_MS + t

\* The calendar fields of day number z: [y, m (0-based), d]
CivilFromDays(z) ==
  LET zz  == z + 719468
      era == zz \div 146097
      doe == zz - era * 146097
      yoe == (doe - (doe \div 1460) + (doe \div 36524) - (doe \div 146096)) \div 365
      doy == doe - (365 * yoe + (yoe \div 4) - (yoe \div 100))
      mp  == (5 * doy + 2) \div 153
      dd  == doy - ((153 * mp + 2) \div 5) + 1
      mon == IF mp < 10 THEN mp + 3 ELSE mp - 9
  IN  [y |-> yoe + era * 400 + (IF mon <= 2 THEN 1 ELSE 0), m |-> mon - 1, d |-> dd]

DayOf(t) == t \div DAY_MS
\* getHours/getMinutes/getSeconds: the time of day
TimeOf(t) == t % DAY_MS
getFullYear(t) == CivilFromDays(DayOf(t)).y
getMonth(t) == CivilFromDays(DayOf(t)).m
getDate(t) == CivilFromDays(DayOf(t)).d
\* 0 = Sunday ... 6 = Saturday; 1970-01-01 was a Thursday
getDay(t) == (DayOf(t) + 4) % 7

\* r = new Date(d); r.setDate(n)
setDate(t, n) ==
  LET c == CivilFromDays(DayOf(t)) IN NewDate(c.y, c.m, n, TimeOf(t))
\* r = new Date(d); r.setMonth(n)
setMonth(t, n) ==
  LET c == CivilFromDays(DayOf(t)) IN NewDate(c.y, n, c.d, TimeOf(t))
\* r = new Date(d); r.setFullYear(n)
setFullYear(t, n) ==
  LET c == CivilFromDays(DayOf(t)) IN NewDate(n, c.m, c.d, TimeOf(t))

-----------------------------------------------------------------------------
(* rruleExpander.ts *)

DAY_MAP ==
  [c \in {"SU", "MO", "TU", "WE", "TH", "FR", "SA"} |->
     CASE c = "SU" -> 0 [] c = "MO" -> 1 [] c = "TU" -> 2 [] c = "WE" -> 3
       [] c = "TH" -> 4 [] c = "FR" -> 5 [] c = "SA" -> 6]

FREQS == {"DAILY", "WEEKLY", "MONTHLY", "YEARLY"}

\* flatMap over a sequence: the concatenation of f[i] for i = 1..n
RECURSIVE FlatTo(_, _)
FlatTo(f, n) == IF n = 0 THEN <<>> ELSE FlatTo(f, n - 1) \o f[n]

FlatMap(s, Op(_)) == FlatTo([i \in 1..Len(s) |-> Op(s[i])], Len(s))

\* a frequency that is absent or not supported is read as DAILY
SupportedFreq_DefaultsDaily(props) ==
  IF "FREQ" \in DOMAIN props /\ props["FREQ"] \in FREQS
  THEN <<props["FREQ"]>> ELSE <<"DAILY">>

\* freq = props["FREQ"], if [DAILY, WEEKLY, MONTHLY, YEARLY].includes(freq)
SupportedFreq(props) ==
  IF "FREQ" \in DOMAIN props /\ props["FREQ"] \in FREQS
  THEN <<props["FREQ"]>> ELSE <<>>

\* The rule string is modelled after its split on ";" and "=": props maps
\* each key present to its value, numbers already read (parseInt, Number,
\* unary +), list values already split on ",".  A BYDAY entry is
\* [n |-> <<>> or <<ordinal>>, code |-> two letters].
parseRRule(props) ==
  IF Len(SupportedFreq(props)) = 0 THEN <<>>
  ELSE <<[
    freq     |-> SupportedFreq(props)[1],
    interval |-> IF "INTERVAL" \in DOMAIN props
                 THEN Max(1, props["INTERVAL"]) ELSE 1,
    until    |-> IF "UNTIL" \in DOMAIN props THEN <<props["UNTIL"]>> ELSE <<>>,
    count    |-> IF "COUNT" \in DOMAIN props THEN <<props["COUNT"]>> ELSE <<>>,
    byDay    |-> IF "BYDAY" \in DOMAIN props
                 THEN FlatMap(props["BYDAY"],
                        LAMBDA d : IF d.code \in DOMAIN DAY_MAP
                                   THEN <<[n |-> d.n, day |-> DAY_MAP[d.code]]>>
                                   ELSE <<>>)
                 ELSE <<>>,
    byMonthDay |-> IF "BYMONTHDAY" \in DOMAIN props THEN props["BYMONTHDAY"] ELSE <<>>,
    byMonth  |-> IF "BYMONTH" \in DOMAIN props
                 THEN [i \in 1..Len(props["BYMONTH"]) |-> props["BYMONTH"][i] - 1]
                 ELSE <<>>
  ]>>

daysInMonth(year, month) == getDate(NewDate(year, month + 1, 0, 0))

withTime(date, source) ==
  NewDate(getFullYear(date), getMonth(date), getDate(date), TimeOf(source))

advanceAnchor(rule, d) ==
  CASE rule.freq = "DAILY"   -> setDate(d, getDate(d) + rule.interval)
    [] rule.freq = "WEEKLY"  -> setDate(d, getDate(d) + 7 * rule.interval)
    [] rule.freq = "MONTHLY" -> setMonth(d, getMonth(d) + rule.interval)
    [] rule.freq = "YEARLY"  -> setFullYear(d, getFullYear(d) + rule.interval)

\* <<>> for null
nthWeekdayOfMonth(year, month, weekday, n) ==
  IF n > 0
  THEN LET firstOfMonth == NewDate(year, month, 1, 0)
           diff == (weekday - getDay(firstOfMonth) + 7) % 7
           day  == 1 + diff + (n - 1) * 7
       IN  IF day <= daysInMonth(year, month)
           THEN <<NewDate(year, month, day, 0)>> ELSE <<>>
  ELSE LET lastDay == daysInMonth(year, month)
           lastOfMonth == NewDate(year, month, lastDay, 0)
           diff == (getDay(lastOfMonth) - weekday + 7) % 7
           day  == lastDay - diff + (n + 1) * 7
       IN  IF day >= 1 THEN <<NewDate(year, month, day, 0)>> ELSE <<>>

\* for (let i = 1; i <= daysInMonth(y, m); i++) { ... results.push(...) }:
\* the days of the month, ascending, that fall on weekday `day`
AllWeekdaysOfMonth(y, m, day, dtStart) ==
  LET days == SelectSeq([i \in 1..daysInMonth(y, m) |-> NewDate(y, m, i, 0)],
                        LAMBDA d : getDay(d) = day)
  IN  [i \in 1..Len(days) |-> withTime(days[i], dtStart)]

\* rule.byDay.flatMap(...) of the MONTHLY and YEARLY cases
ByDayCandidates(rule, y, m, dtStart) ==
  FlatMap(rule.byDay,
    LAMBDA b :
      IF Len(b.n) > 0
      THEN LET d == nthWeekdayOfMonth(y, m, b.day, b.n[1])
           IN  IF Len(d) > 0 THEN <<withTime(d[1], dtStart)>> ELSE <<>>
      ELSE AllWeekdaysOfMonth(y, m, b.day, dtStart))

\* "Default: same day-of-month as dtStart, skip if month is shorter"
SameDayCandidates(y, m, dtStart) ==
  LET day == getDate(dtStart)
  IN  IF day <= daysInMonth(y, m)
      THEN <<withTime(NewDate(y, m, day, 0), dtStart)>> ELSE <<>>

\* "Mon-based offset: MO=0, TU=1, ..., SU=6"
MondayOffset_SundayBased(day) == day

MondayOffset(day) == IF day = 0 THEN 6 ELSE day - 1

getCandidates(rule, anchor, dtStart) ==
  CASE rule.freq = "DAILY" -> <<withTime(anchor, dtStart)>>
    [] rule.freq = "WEEKLY" ->
         LET targetDays == IF Len(rule.byDay) > 0
                           THEN [i \in 1..Len(rule.byDay) |-> rule.byDay[i].day]
                           ELSE <<getDay(dtStart)>>
             dow == getDay(anchor)
             monday == setDate(anchor, getDate(anchor) - (IF dow = 0 THEN 6 ELSE dow - 1))
         IN  [i \in 1..Len(targetDays) |->
                LET day == targetDays[i]
                    offset == MondayOffset(day)
                    d == setDate(monday, getDate(monday) + offset)
                IN  withTime(d, dtStart)]
    [] rule.freq = "MONTHLY" ->
         LET y == getFullYear(anchor)
             m == getMonth(anchor)
         IN  IF Len(rule.byMonthDay) > 0
             THEN FlatMap(rule.byMonthDay,
                    LAMBDA md :
                      LET day == IF md > 0 THEN md ELSE daysInMonth(y, m) + md + 1
                      IN  IF day >= 1 /\ day <= daysInMonth(y, m)
                          THEN <<withTime(NewDate(y, m, day, 0), dtStart)>>
                          ELSE <<>>)
             ELSE IF Len(rule.byDay) > 0
             THEN ByDayCandidates(rule, y, m, dtStart)
             ELSE SameDayCandidates(y, m, dtStart)
    [] rule.freq = "YEARLY" ->
         LET y == getFullYear(anchor)
             months == IF Len(rule.byMonth) > 0 THEN rule.byMonth
                       ELSE <<getMonth(dtStart)>>
         IN  FlatMap(months,
               LAMBDA m :
                 IF Len(rule.byDay) > 0
                 THEN ByDayCandidates(rule, y, m, dtStart)
                 ELSE SameDayCandidates(y, m, dtStart))

MAX_ITER == 5000

\* !rule.count: no COUNT, or COUNT=0
NoCount(rule) == Len(rule.count) = 0 \/ rule.count[1] = 0

\* The number of periods the fast-forward skips
FastForwardSkip(rule, start, ws) ==
  IF NoCount(rule) /\ start < ws
  THEN LET approxMs ==
             CASE rule.freq = "DAILY"   -> rule.interval * DAY_MS
               [] rule.freq = "WEEKLY"  -> rule.interval * 7 * DAY_MS
               [] rule.freq = "MONTHLY" -> rule.interval * 30 * DAY_MS
               [] rule.freq = "YEARLY"  -> rule.interval * 365 * DAY_MS
       IN  Max(0, ((ws - start) \div approxMs) - 2)
  ELSE 0

\* for (let i = 0; i < skip; i++) anchor = advanceAnchor(rule, anchor):
\* advanceAnchor applied skip times, the applications grouped by halves to
\* keep the evaluation shallow
RECURSIVE AdvanceTimes(_, _, _)
AdvanceTimes(rule, anchor, skip) ==
  IF skip = 0 THEN anchor
  ELSE IF skip = 1 THEN advanceAnchor(rule, anchor)
  ELSE LET mid == AdvanceTimes(rule, anchor, skip \div 2)
       IN  IF mid = mid THEN AdvanceTimes(rule, mid, skip - (skip \div 2)) ELSE mid

\* the occurrence record with rrule and exdates left as in the template
Occurrence_KeepsRule(ev, c, end) == [ev EXCEPT !.start = c, !.end = end]

\* { ...event, start: c, end, rrule: undefined, exdates: undefined }
Occurrence(ev, c, end) ==
  [ev EXCEPT !.start = c, !.end = end, !.rrule = <<>>, !.exdates = <<>>]

\* c < event.start: the candidate precedes the inception of the series
BeforeStart_Never(ev, c) == FALSE

BeforeStart(ev, c) == c < ev.start

\* rule.until && d > rule.until, for an anchor or a candidate d
PastUntil_Never(rule, d) == FALSE

PastUntil(rule, d) == Len(rule.until) > 0 /\ d > rule.until[1]

\* c <= windowEnd && occEnd >= windowStart
OverlapsWindow_Exclusive(c, occEnd, ws, we) == c < we /\ occEnd > ws

OverlapsWindow(c, occEnd, ws, we) == c <= we /\ occEnd >= ws

\* for (const c of candidates) { ... }: acc is [results, totalCount, returned]
RECURSIVE ForCandidates(_, _, _, _, _, _, _, _)
ForCandidates(ev, rule, ws, we, excl, cands, i, acc) ==
  IF i > Len(cands) THEN acc
  ELSE
    LET c == cands[i]
        duration == IF Len(ev.end) > 0 THEN ev.end[1] - ev.start ELSE 0
    IN
    IF BeforeStart(ev, c)
    THEN ForCandidates(ev, rule, ws, we, excl, cands, i + 1, acc)
    ELSE IF PastUntil(rule, c)
    THEN [acc EXCEPT !.returned = TRUE]
    ELSE
      LET total == acc.totalCount + 1 IN
      IF Len(rule.count) > 0 /\ total > rule.count[1]
      THEN [acc EXCEPT !.returned = TRUE, !.totalCount = total]
      ELSE IF c > we
      THEN [acc EXCEPT !.returned = TRUE, !.totalCount = total]
      ELSE
        LET end == IF duration > 0 THEN <<c + duration>> ELSE <<>>
            occEnd == IF Len(end) > 0 THEN end[1] ELSE c
            emit == c \notin excl /\ OverlapsWindow(c, occEnd, ws, we)
        IN  ForCandidates(ev, rule, ws, we, excl, cands, i + 1,
              [acc EXCEPT !.totalCount = total,
                          !.results = IF emit THEN Append(@, Occurrence(ev, c, end))
                                      ELSE @])

\* iter < MAX_ITER && anchor <= windowEnd
LoopCondition_NoCeiling(iter, anchor, we) == anchor <= we

LoopCondition(iter, anchor, we) == iter < MAX_ITER /\ anchor <= we

\* One pass of the body of
\*   for (let iter = 0; iter < MAX_ITER && anchor <= windowEnd; iter++) { ... }
\* on the loop state st = [iter, anchor, results, totalCount, done]; done is
\* set when the loop condition fails, on break and on return.
LoopBody(ev, rule, ws, we, excl, st) ==
  IF ~LoopCondition(st.iter, st.anchor, we) THEN [st EXCEPT !.done = TRUE]
  ELSE IF PastUntil(rule, st.anchor)
  THEN [st EXCEPT !.done = TRUE]
  ELSE
    LET after == ForCandidates(ev, rule, ws, we, excl,
                   getCandidates(rule, st.anchor, ev.start), 1,
                   [results |-> st.results, totalCount |-> st.totalCount,
                    returned |-> FALSE])
    IN  [iter |-> st.iter + 1,
         anchor |-> IF after.returned THEN st.anchor
                    ELSE advanceAnchor(rule, st.anchor),
         results |-> after.results,
         totalCount |-> after.totalCount,
         done |-> after.returned]

\* The loop: the body applied until done, at most n more times; the
\* applications are grouped by halves to keep the evaluation shallow.
RECURSIVE MainLoop(_, _, _, _, _, _, _)
MainLoop(ev, rule, ws, we, excl, st, n) ==
  IF st.done THEN st
  ELSE IF n <= 1 THEN LoopBody(ev, rule, ws, we, excl, st)
  ELSE LET mid == MainLoop(ev, rule, ws, we, excl, st, n \div 2)
       IN  MainLoop(ev, rule, ws, we, excl, mid, n - (n \div 2))

\* The main loop of expandRecurring entered with the given anchor.  The
\* condition is tested MAX_ITER + 1 times at most.
ExpandFrom(ev, rule, ws, we, excl, anchor) ==
  MainLoop(ev, rule, ws, we, excl,
    [iter |-> 0, anchor |-> anchor, results |-> <<>>, totalCount |-> 0,
     done |-> FALSE], MAX_ITER + 1).results

expandRecurring(ev, ws, we, excl) ==
  IF Len(ev.rrule) = 0 THEN <<>>
  ELSE
    LET parsed == parseRRule(ev.rrule[1]) IN
    IF Len(parsed) = 0 THEN <<>>
    ELSE
      LET rule == parsed[1]
          anchor == AdvanceTimes(rule, ev.start, FastForwardSkip(rule, ev.start, ws))
      IN  ExpandFrom(ev, rule, ws, we, excl, anchor)

-----------------------------------------------------------------------------
(* The inputs drawn: templates, windows and exclusion sets *)

NoProps == [k \in {} |-> 0]
Prop(key, opt) == IF Len(opt) = 0 THEN NoProps ELSE key :> opt[1]

\* A CalendarEvent as parseICS builds it, with the given start, duration
\* (<<>> for no DTEND) and rule
Template(start, dur, props) ==
  [uid |-> "uid-1", summary |-> "Event", description |-> <<>>,
   location |-> <<>>, start |-> start,
   end |-> IF Len(dur) = 0 THEN <<>> ELSE <<start + dur[1]>>,
   allDay |-> FALSE, status |-> <<>>, rrule |-> <<props>>,
   exdates |-> <<>>, recurrenceId |-> <<>>]

\* the template with its optional descriptive fields and its exclusion list set
WithDetails(ev) ==
  [ev EXCEPT !.description = <<"Weekly guitar practice">>,
             !.location = <<"Music school">>,
             !.status = <<"CONFIRMED">>,
             !.exdates = <<<<NewDate(2024, 0, 3, 1)>>>>]

\* the last tick of a day ("end of day")
LastTick == TicksPerDay - 1

\* INTERVAL absent or 2..MaxInterval
Intervals == {<<>>} \cup {<<k>> : k \in 2..MaxInterval}

\* the series ends: (COUNT, UNTIL) with at most one of the two present
SeriesEnds(untils) ==
  {<<c, <<>>>> : c \in {<<>>} \cup {<<n>> : n \in 0..MaxCount}}
    \cup {<<<<>>, <<u>>>> : u \in untils}

BD(n, code) == [n |-> n, code |-> code]

\* windows [a 00:00, b 00:00 or end of day] over the given days
Windows(fromDays, toDays) ==
  {<<a * DAY_MS, b * DAY_MS + t>> : a \in fromDays, b \in toDays, t \in {0, LastTick}}

WeeklyByDays ==
  { <<>>,
    <<BD(<<>>, "MO"), BD(<<>>, "WE")>>,
    <<BD(<<>>, "WE"), BD(<<>>, "MO")>>,
    <<BD(<<>>, "SU"), BD(<<>>, "MO"), BD(<<>>, "XX"), BD(<<>>, "TU")>> }

\* the locals before the call is entered
NoLocals ==
  [i |-> 0, skip |-> 0,
   loop |-> [iter |-> 0, anchor |-> 0, results |-> <<>>, totalCount |-> 0,
             done |-> FALSE]]

\* no rule string is being read
OthersIdle ==
  /\ ruleStr = NoProps
  /\ parsedRule = <<>>
  /\ icsCache = <<>>
  /\ recurringCache = <<>>
  /\ clock = 0
  /\ served = <<>>
  /\ calls = <<>>
  /\ exec = <<>>
  /\ imap = <<>>

\* the state before the call: the arguments are bound, nothing is returned yet
Called(ev, w, excl) ==
  /\ w[1] <= w[2]
  /\ event = ev
  /\ windowStart = w[1]
  /\ windowEnd = w[2]
  /\ excludedTimes = excl
  /\ results = <<>>
  /\ pc = "ready"
  /\ locals = NoLocals
  /\ text = <<>>
  /\ allEvents = <<>>
  /\ now = 0
  /\ occurrences = <<>>
  /\ OthersIdle

WeeklyInit ==
  \E s \in {NewDate(2024, 0, 1, 1), NewDate(2024, 0, 3, 1), NewDate(2024, 0, 7, 0)},
     d \in {<<>>, <<TicksPerDay + 1>>}, i \in Intervals,
     e \in SeriesEnds({NewDate(2024, 0, 15, 1)}), b \in WeeklyByDays,
     w \in Windows({MakeDay(2023, 11, 25), MakeDay(2024, 0, 2), MakeDay(2024, 0, 9)},
                   {MakeDay(2024, 0, 2), MakeDay(2024, 0, 9), MakeDay(2024, 0, 16),
                    MakeDay(2024, 0, 31)})
             \cup Windows({MakeDay(2026, 1, 23)}, {MakeDay(2026, 2, 16)}),
     x \in {{}, {NewDate(2024, 0, 8, 1)}} :
    Called(Template(s, d, ("FREQ" :> "WEEKLY") @@ Prop("INTERVAL", i)
                            @@ Prop("COUNT", e[1]) @@ Prop("UNTIL", e[2])
                            @@ Prop("BYDAY", IF Len(b) = 0 THEN <<>> ELSE <<b>>)),
           w, x)

\* [BYMONTHDAY, BYDAY] of the Monthly rules drawn
MonthlySelectors ==
  { <<<<>>, <<>>>> }
  \cup { <<<<md>>, <<>>>> : md \in { <<15>>, <<31>>, <<-1>>, <<0, 32>>, <<15, 1>> } }
  \cup { <<<<>>, <<bd>>>> : bd \in { <<BD(<<2>>, "TU")>>, <<BD(<<-1>>, "FR")>>,
                                      <<BD(<<5>>, "MO")>>, <<BD(<<0>>, "MO")>>,
                                      <<BD(<<-5>>, "MO")>>,
                                      <<BD(<<>>, "MO"), BD(<<>>, "TU")>> } }

MonthlyInit ==
  \E s \in {NewDate(2024, 0, 31, 1), NewDate(2024, 0, 15, 1)},
     d \in {<<>>, <<TicksPerDay + 1>>}, i \in Intervals,
     e \in SeriesEnds({NewDate(2024, 2, 31, 1)}), sel \in MonthlySelectors,
     w \in Windows({MakeDay(2024, 0, 1), MakeDay(2024, 2, 15)},
                   {MakeDay(2024, 1, 29), MakeDay(2024, 2, 31), MakeDay(2024, 5, 30)})
             \cup Windows({MakeDay(2036, 4, 28)}, {MakeDay(2036, 5, 28)}) :
    Called(Template(s, d, ("FREQ" :> "MONTHLY") @@ Prop("INTERVAL", i)
                            @@ Prop("COUNT", e[1]) @@ Prop("UNTIL", e[2])
                            @@ Prop("BYMONTHDAY", sel[1]) @@ Prop("BYDAY", sel[2])),
           w, {})

YearlyByMonths == { <<>>, <<<<11>>>>, <<<<3>>>>, <<<<13>>>>, <<<<0>>>>, <<<<6, 3>>>> }

YearlyByDays ==
  { <<>>, <<<<BD(<<4>>, "TH")>>>>, <<<<BD(<<-1>>, "TH")>>>>, <<<<BD(<<5>>, "TH")>>>>,
    <<<<BD(<<0>>, "TH")>>>>, <<<<BD(<<>>, "MO"), BD(<<>>, "TU")>>>> }

YearlyInit ==
  \E s \in {NewDate(2023, 10, 23, 1), NewDate(2024, 10, 28, 1)}, i \in Intervals,
     e \in SeriesEnds({NewDate(2025, 10, 27, 1)}),
     bm \in YearlyByMonths, bd \in YearlyByDays,
     w \in Windows({MakeDay(2023, 0, 1), MakeDay(2024, 2, 1)},
                   {MakeDay(2025, 10, 27), MakeDay(2025, 11, 31), MakeDay(2028, 11, 31)}) :
    Called(Template(s, <<1>>, ("FREQ" :> "YEARLY") @@ Prop("INTERVAL", i)
                                @@ Prop("COUNT", e[1]) @@ Prop("UNTIL", e[2])
                                @@ Prop("BYMONTH", bm) @@ Prop("BYDAY", bd)),
           w, {})

DailyInit ==
  \E d \in {<<>>, <<0>>, <<TicksPerDay + 1>>}, i \in Intervals \cup {<<0>>},
     e \in SeriesEnds({NewDate(2024, 0, 5, 1)}),
     w \in Windows({MakeDay(2023, 11, 25), MakeDay(2024, 0, 3)},
                   {MakeDay(2024, 0, 3), MakeDay(2024, 0, 10)})
             \cup Windows({MakeDay(2028, 0, 1)}, {MakeDay(2028, 0, 3)}),
     x \in {{}, {NewDate(2024, 0, 3, 1)}}, detailed \in BOOLEAN :
    LET ev == Template(NewDate(2024, 0, 1, 1), d,
                       ("FREQ" :> "DAILY") @@ Prop("INTERVAL", i)
                         @@ Prop("COUNT", e[1]) @@ Prop("UNTIL", e[2]))
    IN  Called(IF detailed THEN WithDetails(ev) ELSE ev, w, x)

-----------------------------------------------------------------------------
(* The state machine: one call of expandRecurring *)

Init == WeeklyInit \/ MonthlyInit \/ YearlyInit \/ DailyInit

Expand ==
  /\ pc = "ready"
  /\ results' = expandRecurring(event, windowStart, windowEnd, excludedTimes)
  /\ pc' = "done"
  /\ UNCHANGED <<event, windowStart, windowEnd, excludedTimes, locals, feedVars, otherVars>>

Next == Expand

Spec == Init /\ [][Next]_vars

-----------------------------------------------------------------------------
(* The same call followed step by step: one action per pass of its loops *)

\* the rule strings of the calls followed step by step
StepRules ==
  { ("FREQ" :> "DAILY"),
    ("FREQ" :> "DAILY") @@ ("INTERVAL" :> 2),
    ("FREQ" :> "DAILY") @@ ("COUNT" :> 2),
    ("FREQ" :> "DAILY") @@ ("UNTIL" :> NewDate(2024, 0, 5, 1)),
    ("FREQ" :> "WEEKLY") @@ ("BYDAY" :> <<BD(<<>>, "WE"), BD(<<>>, "MO")>>),
    ("FREQ" :> "MONTHLY"),
    ("FREQ" :> "MONTHLY") @@ ("BYDAY" :> <<BD(<<0>>, "MO")>>) @@ ("COUNT" :> 2),
    ("FREQ" :> "YEARLY") @@ ("BYMONTH" :> <<6, 3>>),
    ("FREQ" :> "HOURLY"),
    ("INTERVAL" :> 2) }

\* near and farther windows for every rule; and a rule that never has a
\* candidate, with a count cap (no fast-forward), over a window of centuries
StepInit ==
  \/ \E r \in StepRules, d \in {<<>>, <<TicksPerDay + 1>>},
        w \in Windows({MakeDay(2023, 11, 25)}, {MakeDay(2024, 0, 10)})
                \cup Windows({MakeDay(2024, 5, 1)}, {MakeDay(2024, 5, 30)}),
        x \in {{}, {NewDate(2024, 0, 3, 1)}} :
       Called(Template(NewDate(2024, 0, 1, 1), d, r), w, x)
  \/ \E w \in Windows({MakeDay(2024, 0, 1)}, {MakeDay(2500, 0, 1)}) :
       Called(Template(NewDate(2024, 0, 15, 1), <<>>,
                       ("FREQ" :> "MONTHLY") @@ ("BYMONTHDAY" :> <<32>>)
                         @@ ("COUNT" :> 1)),
              w, {})

\* if (!event.rrule) return []; rule = parseRRule(...); if (!rule) return [];
\* otherwise the locals are set up and the fast-forward count is computed
Enter ==
  /\ pc = "ready"
  /\ IF Len(event.rrule) = 0 \/ Len(parseRRule(event.rrule[1])) = 0
     THEN /\ results' = <<>>
          /\ pc' = "done"
          /\ UNCHANGED locals
     ELSE /\ locals' = [i |-> 0,
                        skip |-> FastForwardSkip(parseRRule(event.rrule[1])[1],
                                                 event.start, windowStart),
                        loop |-> [iter |-> 0, anchor |-> event.start, results |-> <<>>,
                                  totalCount |-> 0, done |-> FALSE]]
          /\ pc' = "ff"
          /\ UNCHANGED results
  /\ UNCHANGED <<event, windowStart, windowEnd, excludedTimes, feedVars, otherVars>>

\* one pass of: for (let i = 0; i < skip; i++) anchor = advanceAnchor(rule, anchor)
FastForwardStep ==
  /\ pc = "ff"
  /\ locals.i < locals.skip
  /\ locals' = [locals EXCEPT !.i = @ + 1,
                              !.loop.anchor = advanceAnchor(parseRRule(event.rrule[1])[1], @)]
  /\ UNCHANGED <<event, windowStart, windowEnd, excludedTimes, results, pc, feedVars, otherVars>>

\* the fast-forward loop is left
FastForwardExit ==
  /\ pc = "ff"
  /\ ~(locals.i < locals.skip)
  /\ pc' = "loop"
  /\ UNCHANGED <<event, windowStart, windowEnd, excludedTimes, results, locals, feedVars, otherVars>>

\* one test of the condition of the main loop and, if it holds, one pass
LoopStep ==
  /\ pc = "loop"
  /\ ~locals.loop.done
  /\ locals' = [locals EXCEPT !.loop =
                  LoopBody(event, parseRRule(event.rrule[1])[1], windowStart, windowEnd,
                           excludedTimes, @)]
  /\ UNCHANGED <<event, windowStart, windowEnd, excludedTimes, results, pc, feedVars, otherVars>>

\* return results
Return ==
  /\ pc = "loop"
  /\ locals.loop.done
  /\ results' = locals.loop.results
  /\ pc' = "done"
  /\ UNCHANGED <<event, windowStart, windowEnd, excludedTimes, locals, feedVars, otherVars>>

StepNext == Enter \/ FastForwardStep \/ FastForwardExit \/ LoopStep \/ Return

\* a step is possible in every state but the returned one: Enter at "ready";
\* at "ff" one of FastForwardStep and FastForwardExit, at "loop" one of
\* LoopStep and Return
StepPossible == pc \in {"ready", "ff", "loop"}

\* WF_vars(FastForwardStep) and WF_vars(LoopStep) with ENABLED <<A>>_vars
\* written out: it is the guard of the action, as every pass changes a counter
LoopsKeepRunning ==
  /\ \/ []<>~(pc = "ff" /\ locals.i < locals.skip)
     \/ []<><<FastForwardStep>>_vars
  /\ \/ []<>~(pc = "loop" /\ ~locals.loop.done)
     \/ []<><<LoopStep>>_vars

\* expandRecurring is synchronous code on one thread: it keeps running
StepSpec ==
  /\ StepInit /\ [][StepNext]_vars
  /\ WF_vars(Enter) /\ WF_vars(FastForwardExit) /\ WF_vars(Return)
  /\ LoopsKeepRunning

-----------------------------------------------------------------------------
(* The feed decoder (src/src/lib/icsParser.ts)                             *)
(*                                                                         *)
(* Text.  A string is a sequence of pieces.  A piece is one character the  *)
(* decoder looks at (colon, semicolon, equals sign, comma, backslash, the  *)
(* line feed inside a value, space, tab, the letters n and N), or a word:  *)
(* a run of other characters, kept whole; two words are never adjacent.    *)
(* The value of a date property is one piece that carries the fields of a  *)
(* well-formed date string, the value of RRULE one piece that carries the  *)
(* KEY=VALUE pairs of the rule string (what parseRRule splits it into).    *)
(* The text of a feed is the sequence of its physical lines.               *)

Ch(c) == [k |-> "char", v |-> c]
Word(w) == [k |-> "word", v |-> w]
\* the digits of YYYYMMDD (form "DATE"), YYYYMMDDTHHMMSS ("LOCAL") and
\* YYYYMMDDTHHMMSSZ ("UTC"); mo is the month as written, 1..12
DateValue(form, y, mo, d, t) ==
  [k |-> "date", v |-> [form |-> form, y |-> y, mo |-> mo, d |-> d, t |-> t]]
RuleValue(props) == [k |-> "rule", v |-> props]

IsCh(p, c) == p.k = "char" /\ p.v = c
IsWord(p, w) == p.k = "word" /\ p.v = w
\* the string is exactly the word w
IsText(str, w) == Len(str) = 1 /\ IsWord(str[1], w)

\* String.prototype.indexOf of a character, counted from 1; 0 when absent
IndexOf(str, c) ==
  IF \E i \in 1..Len(str) : IsCh(str[i], c)
  THEN CHOOSE i \in 1..Len(str) :
         IsCh(str[i], c) /\ \A j \in 1..(i - 1) : ~IsCh(str[j], c)
  ELSE 0

\* String.prototype.split on a character
RECURSIVE Split(_, _)
Split(str, c) ==
  LET i == IndexOf(str, c) IN
  IF i = 0 THEN <<str>>
  ELSE <<SubSeq(str, 1, i - 1)>> \o Split(SubSeq(str, i + 1, Len(str)), c)

\* String.prototype.replace(/ab/g, r) for the two-character pattern a b:
\* the matches are found from the left and do not overlap
RECURSIVE ReplaceAll(_, _, _, _)
ReplaceAll(str, a, b, r) ==
  IF Len(str) < 2 THEN str
  ELSE IF IsCh(str[1], a) /\ IsCh(str[2], b)
       THEN <<Ch(r)>> \o ReplaceAll(SubSeq(str, 3, Len(str)), a, b, r)
       ELSE <<str[1]>> \o ReplaceAll(Tail(str), a, b, r)

\* the words whose upper-case form differs from them
UpperCase ==
  ("uid" :> "UID") @@ ("summary" :> "SUMMARY") @@ ("Description" :> "DESCRIPTION")
    @@ ("dtstart" :> "DTSTART") @@ ("value" :> "VALUE") @@ ("begin" :> "BEGIN")
    @@ ("vevent" :> "VEVENT")

\* String.prototype.toUpperCase
toUpperCase(str) ==
  [i \in 1..Len(str) |->
     IF str[i].k = "word" /\ str[i].v \in DOMAIN UpperCase
     THEN Word(UpperCase[str[i].v])
     ELSE IF IsCh(str[i], "n") THEN Ch("N") ELSE str[i]]

\* text.replace(/\r\n/g, "\n").replace(/\n[ \t]/g, ""): a physical line that
\* begins with a space or a tab continues the line before it
RECURSIVE JoinFolded(_, _)
JoinFolded(lines, acc) ==
  IF Len(lines) = 0 THEN acc
  ELSE LET line == Head(lines) IN
       IF Len(acc) > 0 /\ Len(line) > 0 /\ (IsCh(line[1], " ") \/ IsCh(line[1], "\t"))
       THEN JoinFolded(Tail(lines), [acc EXCEPT ![Len(acc)] = @ \o Tail(line)])
       ELSE JoinFolded(Tail(lines), Append(acc, line))

\* .split("\n").filter((line) => line.length > 0)
unfoldLines(lines) == SelectSeq(JoinFolded(lines, <<>>), LAMBDA line : Len(line) > 0)

\* the replacements in the order of the code, each over the whole string
unescapeValue(value) ==
  ReplaceAll(ReplaceAll(ReplaceAll(ReplaceAll(ReplaceAll(value,
    "\\", "n", "\n"), "\\", "N", "\n"), "\\", ",", ","), "\\", ";", ";"), "\\", "\\", "\\")

\* params[KEY] = value for each part KEY=value after the name; a later part
\* with the same key replaces an earlier one
RECURSIVE ParamsFrom(_, _, _)
ParamsFrom(parts, i, params) ==
  IF i > Len(parts) THEN params
  ELSE LET eqIdx == IndexOf(parts[i], "=") IN
       ParamsFrom(parts, i + 1,
         IF eqIdx = 0 THEN params
         ELSE (toUpperCase(SubSeq(parts[i], 1, eqIdx - 1))
                 :> SubSeq(parts[i], eqIdx + 1, Len(parts[i]))) @@ params)

\* <<>> for null, else <<[name, params, value]>>
parseLine(line) ==
  LET colonIdx == IndexOf(line, ":") IN
  IF colonIdx = 0 THEN <<>>
  ELSE LET namePart == SubSeq(line, 1, colonIdx - 1)
           value == SubSeq(line, colonIdx + 1, Len(line))
           parts == Split(namePart, ";")
       IN  <<[name |-> toUpperCase(parts[1]),
              params |-> ParamsFrom(parts, 2, NoProps),
              value |-> value]>>

\* params["VALUE"] === "DATE"
IsDateOnly(params) ==
  /\ <<Word("VALUE")>> \in DOMAIN params
  /\ IsText(params[<<Word("VALUE")>>], "DATE")

\* parseICSDate of a well-formed date string.  The process runs in the zone
\* of UTC, so Date.UTC and the local constructor give the same Date.
parseICSDate(value, params) ==
  LET v == value[1].v
      isAllDay == IsDateOnly(params) \/ v.form = "DATE"
  IN  IF isAllDay
      THEN [date |-> NewDate(v.y, v.mo - 1, v.d, 0), allDay |-> TRUE]
      ELSE [date |-> NewDate(v.y, v.mo - 1, v.d, v.t), allDay |-> FALSE]

\* let current: Partial<CalendarEvent> = {}
NoFields ==
  [uid |-> <<>>, summary |-> <<>>, description |-> <<>>, location |-> <<>>,
   start |-> <<>>, end |-> <<>>, allDay |-> <<>>, status |-> <<>>,
   rrule |-> <<>>, exdates |-> <<>>, recurrenceId |-> <<>>]

\* current.rrule = parsed.value: the pairs of the rule string; an empty
\* string is no rule to every reader (!event.rrule)
RawRule(value) ==
  IF Len(value) = 0 THEN <<>>
  ELSE IF value[1].k = "rule" THEN <<value[1].v>> ELSE <<NoProps>>

\* the dates of the line replace the list
AppendExdates_Overwrites(exdates, dates) == <<dates>>

\* current.exdates = [...(current.exdates ?? []), ...dates]
AppendExdates(exdates, dates) ==
  <<(IF Len(exdates) = 0 THEN <<>> ELSE exdates[1]) \o dates>>

\* the switch on parsed.name
SetField(current, parsed) ==
  LET name == parsed.name
      value == parsed.value
  IN  CASE IsText(name, "UID") -> [current EXCEPT !.uid = <<value>>]
        [] IsText(name, "SUMMARY") -> [current EXCEPT !.summary = <<unescapeValue(value)>>]
        [] IsText(name, "DESCRIPTION") ->
             [current EXCEPT !.description = <<unescapeValue(value)>>]
        [] IsText(name, "LOCATION") -> [current EXCEPT !.location = <<unescapeValue(value)>>]
        [] IsText(name, "STATUS") -> [current EXCEPT !.status = <<value>>]
        [] IsText(name, "RRULE") -> [current EXCEPT !.rrule = RawRule(value)]
        [] IsText(name, "EXDATE") ->
             LET vs == Split(value, ",")
                 dates == [i \in 1..Len(vs) |-> parseICSDate(vs[i], parsed.params).date]
             IN  [current EXCEPT !.exdates = AppendExdates(@, dates)]
        [] IsText(name, "RECURRENCE-ID") ->
             [current EXCEPT !.recurrenceId = <<parseICSDate(value, parsed.params).date>>]
        [] IsText(name, "DTSTART") ->
             LET r == parseICSDate(value, parsed.params)
             IN  [current EXCEPT !.start = <<r.date>>, !.allDay = <<r.allDay>>]
        [] IsText(name, "DTEND") ->
             [current EXCEPT !.end = <<parseICSDate(value, parsed.params).date>>]
        [] OTHER -> current

\* only the start is tested
IsComplete_StartOnly(current) == Len(current.start) = 1

\* current.uid && current.summary && current.start !== undefined
IsComplete(current) ==
  /\ Len(current.uid) = 1 /\ Len(current.uid[1]) > 0
  /\ Len(current.summary) = 1 /\ Len(current.summary[1]) > 0
  /\ Len(current.start) = 1

\* current as CalendarEvent: the required fields are read without a test
AsCalendarEvent(current) ==
  [current EXCEPT !.uid = IF Len(@) = 1 THEN @[1] ELSE <<>>,
                  !.summary = IF Len(@) = 1 THEN @[1] ELSE <<>>,
                  !.start = @[1],
                  !.allDay = @[1]]

IsLine(line, name, value) ==
  Len(line) = 3 /\ IsWord(line[1], name) /\ IsCh(line[2], ":") /\ IsWord(line[3], value)

\* the fields read so far are kept when a block begins
OpenEvent_KeepsFields(st) == [st EXCEPT !.inEvent = TRUE]

\* inEvent = true; current = {}
OpenEvent(st) == [st EXCEPT !.inEvent = TRUE, !.current = NoFields]

\* one pass of: for (const line of lines)
ParseStep(st, line) ==
  IF IsLine(line, "BEGIN", "VEVENT")
  THEN OpenEvent(st)
  ELSE IF IsLine(line, "END", "VEVENT")
  THEN [inEvent |-> FALSE, current |-> NoFields,
        events |-> IF IsComplete(st.current)
                   THEN Append(st.events, AsCalendarEvent(st.current))
                   ELSE st.events]
  ELSE IF ~st.inEvent THEN st
  ELSE LET parsed == parseLine(line) IN
       IF Len(parsed) = 0 THEN st
       ELSE [st EXCEPT !.current = SetField(@, parsed[1])]

RECURSIVE ParseLines(_, _)
ParseLines(st, lines) ==
  IF Len(lines) = 0 THEN st
  ELSE ParseLines(ParseStep(st, Head(lines)), Tail(lines))

parseICS(lines) ==
  ParseLines([inEvent |-> FALSE, current |-> NoFields, events |-> <<>>],
             unfoldLines(lines)).events

-----------------------------------------------------------------------------
(* get_events (src/src/tools/CalendarTool.ts): the feed is decoded, then   *)
(* its recurring events are expanded over the look-back / look-ahead window *)

RECURRING_LOOKBACK_DAYS == 30
RECURRING_LOOKAHEAD_DAYS == 90

\* recurrenceIdsByUid.get(uid) ?? []
RecurrenceIdsByUid_AnyUid(events, uid) ==
  {events[i].recurrenceId[1] :
     i \in {j \in 1..Len(events) : Len(events[j].recurrenceId) > 0}}

RecurrenceIdsByUid(events, uid) ==
  {events[i].recurrenceId[1] :
     i \in {j \in 1..Len(events) :
              Len(events[j].recurrenceId) > 0 /\ events[j].uid = uid}}

\* new Set([...(event.exdates ?? []).map(getTime), ...(recurrenceIdsByUid.get(event.uid) ?? [])])
Excluded(events, ev) ==
  (IF Len(ev.exdates) = 0 THEN {}
   ELSE {ev.exdates[1][i] : i \in 1..Len(ev.exdates[1])})
    \cup RecurrenceIdsByUid(events, ev.uid)

\* for (const event of allEvents): the occurrences of the first n events
RECURSIVE ExpandEach(_, _, _, _)
ExpandEach(events, ws, we, n) ==
  IF n = 0 THEN <<>>
  ELSE ExpandEach(events, ws, we, n - 1)
         \o (IF Len(events[n].rrule) = 0 THEN <<>>
             ELSE expandRecurring(events[n], ws, we, Excluded(events, events[n])))

expandAllRecurring(events, at) ==
  ExpandEach(events, at - RECURRING_LOOKBACK_DAYS * DAY_MS,
             at + RECURRING_LOOKAHEAD_DAYS * DAY_MS, Len(events))

-----------------------------------------------------------------------------
(* The feeds drawn *)

\* the content line NAME:value
Line(name, value) == <<Word(name), Ch(":")>> \o value

\* makeICS of the tests: the calendar wrapper around the given lines
makeICS(lines) ==
  <<Line("BEGIN", <<Word("VCALENDAR")>>), Line("VERSION", <<Word("2.0")>>),
    Line("PRODID", <<Word("-//Test//Test//EN")>>)>>
    \o lines \o <<Line("END", <<Word("VCALENDAR")>>)>>

\* an event block with the three required properties and further lines
VEvent(uid, summary, start, more) ==
  <<Line("BEGIN", <<Word("VEVENT")>>), Line("UID", <<Word(uid)>>),
    Line("SUMMARY", <<Word(summary)>>), Line("DTSTART", <<start>>)>>
    \o more \o <<Line("END", <<Word("VEVENT")>>)>>

\* the state when the text of the feed has been fetched, at time at
Fetched(lines, at) ==
  /\ text = lines
  /\ now = at
  /\ allEvents = <<>>
  /\ occurrences = <<>>
  /\ pc = "fetched"
  /\ event = NoFields
  /\ windowStart = 0
  /\ windowEnd = 0
  /\ excludedTimes = {}
  /\ results = <<>>
  /\ locals = NoLocals
  /\ OthersIdle

\* the values of the RRULE lines drawn: rule strings that parse, rule strings
\* whose frequency is absent or not supported, a string without any pair and
\* the empty string
GoodRuleValues ==
  { <<RuleValue("FREQ" :> "DAILY")>>,
    <<RuleValue(("FREQ" :> "WEEKLY") @@ ("BYDAY" :> <<BD(<<>>, "MO"), BD(<<>>, "WE")>>))>> }
BadRuleValues ==
  { <<RuleValue("FREQ" :> "HOURLY")>>, <<RuleValue("FREQ" :> "daily")>>,
    <<RuleValue(("INTERVAL" :> 2) @@ ("COUNT" :> 3))>>, <<Word("garbage")>>, <<>> }

\* feeds of two recurring events, the first with any of the rule values, with
\* the uid of the second or its own, and with or without a RECURRENCE-ID line;
\* followed by a one-off event
RuleFeeds ==
  \E r1 \in GoodRuleValues \cup BadRuleValues, r2 \in GoodRuleValues,
     u \in {"a@test", "b@test"}, first \in BOOLEAN,
     rid \in {<<>>, <<Line("RECURRENCE-ID", <<DateValue("LOCAL", 2024, 1, 3, 1)>>)>>},
     at \in {NewDate(2024, 0, 20, 0), NewDate(2024, 4, 1, 1)} :
    LET A == VEvent(u, "First", DateValue("LOCAL", 2024, 1, 2, 1),
                    <<Line("RRULE", r1)>> \o rid)
        B == VEvent("b@test", "Second", DateValue("LOCAL", 2024, 1, 1, 1),
                    <<Line("RRULE", r2),
                      Line("DTEND", <<DateValue("LOCAL", 2024, 1, 2, 0)>>)>>)
        C == VEvent("c@test", "Third", DateValue("DATE", 2024, 1, 5, 0), <<>>)
    IN  Fetched(makeICS(IF first THEN A \o B \o C ELSE B \o C \o A), at)

\* the lines of an event block drawn for each required property: absent,
\* with an empty value, with a value; the name in lower case; a date-only start
UidLines ==
  {<<>>, <<Line("UID", <<>>)>>, <<Line("UID", <<Word("x@test")>>)>>}
SummaryLines ==
  {<<>>, <<Line("SUMMARY", <<>>)>>, <<Line("SUMMARY", <<Word("Lunch")>>)>>,
   <<Line("summary", <<Word("Lunch"), Ch("\\"), Ch(","), Word(" dinner")>>)>>}
StartLines ==
  {<<>>, <<Line("DTSTART", <<DateValue("UTC", 2024, 1, 15, 1)>>)>>,
   <<<<Word("DTSTART"), Ch(";"), Word("VALUE"), Ch("="), Word("DATE"), Ch(":"),
       DateValue("LOCAL", 2024, 1, 15, 1)>>>>}

\* feeds of a complete event block and a block with any of those lines, closed
\* by END:VEVENT or left open, before or after the complete one
RequiredFieldFeeds ==
  \E u \in UidLines, sm \in SummaryLines, st \in StartLines,
     closed \in BOOLEAN, first \in BOOLEAN :
    LET A == <<Line("BEGIN", <<Word("VEVENT")>>)>> \o u \o sm \o st
               \o <<Line("STATUS", <<Word("TENTATIVE")>>)>>
               \o (IF closed THEN <<Line("END", <<Word("VEVENT")>>)>> ELSE <<>>)
        B == VEvent("b@test", "Second", DateValue("LOCAL", 2024, 1, 1, 1), <<>>)
    IN  Fetched(makeICS(IF first THEN A \o B ELSE B \o A), NewDate(2024, 0, 20, 0))

\* the component BEGIN:kind ... END:kind with the given lines
Component(kind, lines) ==
  <<Line("BEGIN", <<Word(kind)>>)>> \o lines \o <<Line("END", <<Word(kind)>>)>>

\* the property lines of the alarms drawn
AlarmLines ==
  { <<Line("ACTION", <<Word("AUDIO")>>), Line("TRIGGER", <<Word("-PT15M")>>)>>,
    <<Line("ACTION", <<Word("DISPLAY")>>), Line("DESCRIPTION", <<Word("Reminder")>>),
      Line("TRIGGER", <<Word("-PT15M")>>)>>,
    <<Line("ACTION", <<Word("EMAIL")>>), Line("SUMMARY", <<Word("Alarm")>>),
      Line("TRIGGER", <<Word("-PT15M")>>)>>,
    <<Line("UID", <<Word("alarm@test")>>), Line("TRIGGER", <<DateValue("UTC", 2024, 1, 14, 1)>>)>>,
    <<Line("TRIGGER", <<Word("-PT15M")>>),
      Line("DTSTART", <<DateValue("UTC", 2024, 1, 14, 1)>>)>> }

\* feeds of one event, with an alarm inside it (before or after the properties
\* of the event) or none, and a to-do or a journal entry, itself with an alarm
\* or not, before or after the event or none
ComponentFeeds ==
  \E alarm \in {<<>>} \cup {Component("VALARM", a) : a \in AlarmLines},
     alarmFirst \in BOOLEAN,
     other \in {<<>>} \cup
       {Component(kind, <<Line("UID", <<Word("todo@test")>>),
                          Line("SUMMARY", <<Word("Buy milk")>>),
                          Line("DTSTART", <<DateValue("DATE", 2024, 1, 16, 0)>>)>> \o inner) :
          kind \in {"VTODO", "VJOURNAL"},
          inner \in {<<>>, Component("VALARM", <<Line("DESCRIPTION", <<Word("Reminder")>>)>>)}},
     otherFirst \in BOOLEAN :
    LET own == <<Line("DESCRIPTION", <<Word("Team sync")>>),
                 Line("LOCATION", <<Word("Room 1")>>)>>
        E == VEvent("a@test", "Meeting", DateValue("UTC", 2024, 1, 15, 1),
                    IF alarmFirst THEN alarm \o own ELSE own \o alarm)
    IN  Fetched(makeICS(IF otherFirst THEN other \o E ELSE E \o other),
                NewDate(2024, 0, 20, 0))

\* the characters unescapeValue looks at: backslash, comma, semicolon, line
\* feed and the letter n
Alphabet == {Ch("\\"), Ch(","), Ch(";"), Ch("\n"), Ch("n")}

\* the texts over them, up to MaxTextLen characters
Texts == UNION {[1..n -> Alphabet] : n \in 0..MaxTextLen}

\* the escaping of a text value in a feed (RFC 5545 TEXT): backslash, line
\* feed, comma and semicolon are written with a backslash before them, the
\* line feed as the letter n
EscapeChar(p) ==
  IF IsCh(p, "\\") THEN <<Ch("\\"), Ch("\\")>>
  ELSE IF IsCh(p, "\n") THEN <<Ch("\\"), Ch("n")>>
  ELSE IF IsCh(p, ",") THEN <<Ch("\\"), Ch(",")>>
  ELSE IF IsCh(p, ";") THEN <<Ch("\\"), Ch(";")>>
  ELSE <<p>>

Escape(str) == FlatMap(str, EscapeChar)

\* feeds of one event whose DESCRIPTION is an escaped text
EscapedTextFeeds ==
  \E t \in Texts :
    Fetched(makeICS(VEvent("escape@test", "Lunch", DateValue("UTC", 2024, 1, 1, 1),
                           <<Line("DESCRIPTION", Escape(t))>>)),
            NewDate(2024, 0, 20, 0))

\* the EXDATE lines of an event block drawn: none, one value, two values on
\* one line, two lines, two lines with two values on the first, a date-only
\* value
ExdateLines ==
  LET d1 == DateValue("UTC", 2024, 1, 3, 1)
      d2 == DateValue("UTC", 2024, 1, 5, 1)
      d3 == DateValue("UTC", 2024, 1, 7, 1)
  IN  { <<>>,
        <<Line("EXDATE", <<d1>>)>>,
        <<Line("EXDATE", <<d1, Ch(","), d2>>)>>,
        <<Line("EXDATE", <<d2>>), Line("EXDATE", <<d1>>)>>,
        <<Line("EXDATE", <<d1, Ch(","), d2>>), Line("LOCATION", <<Word("Room 1")>>),
          Line("EXDATE", <<d3>>)>>,
        <<<<Word("EXDATE"), Ch(";"), Word("VALUE"), Ch("="), Word("DATE"), Ch(":"),
            DateValue("DATE", 2024, 1, 4, 0), Ch(","), DateValue("DATE", 2024, 1, 6, 0)>>>> }

\* feeds of two daily events, each with any of those lines
ExdateFeeds ==
  \E xa \in ExdateLines, xb \in ExdateLines, first \in BOOLEAN :
    LET A == VEvent("a@test", "First", DateValue("UTC", 2024, 1, 1, 1),
                    <<Line("RRULE", <<RuleValue("FREQ" :> "DAILY")>>)>> \o xa)
        B == VEvent("b@test", "Second", DateValue("UTC", 2024, 1, 1, 1),
                    xb \o <<Line("RRULE", <<RuleValue("FREQ" :> "DAILY")>>)>>)
    IN  Fetched(makeICS(IF first THEN A \o B ELSE B \o A), NewDate(2024, 0, 20, 0))

FeedInit ==
  \/ RuleFeeds \/ RequiredFieldFeeds \/ ComponentFeeds \/ EscapedTextFeeds
  \/ ExdateFeeds

\* allParsed = parseICS(icsText)
Parse ==
  /\ pc = "fetched"
  /\ allEvents' = parseICS(text)
  /\ pc' = "parsed"
  /\ UNCHANGED <<text, now, occurrences, callVars, otherVars>>

\* recurringOccurrences = expandAllRecurring(allParsed)
ExpandAll ==
  /\ pc = "parsed"
  /\ occurrences' = expandAllRecurring(allEvents, now)
  /\ pc' = "expanded"
  /\ UNCHANGED <<text, now, allEvents, callVars, otherVars>>

FeedNext == Parse \/ ExpandAll

FeedSpec == FeedInit /\ [][FeedNext]_vars

-----------------------------------------------------------------------------
(* parseRRule on the text of the number values.  Here the value of a key   *)
(* of the rule string is a text: a sequence of pieces, a piece being a     *)
(* blank, a numeral (an optional sign and digits, standing for an integer) *)
(* or a word (characters that start no numeral).  A number that may be NaN *)
(* is <<>> for NaN and <<n>> otherwise.                                     *)

Numeral(n) == [k |-> "int", v |-> n]
Blank == Ch(" ")

\* parseInt(text, 10): leading blanks are skipped; the integer of the numeral
\* that follows, whatever comes after it; NaN when no numeral follows
RECURSIVE parseInt(_)
parseInt(str) ==
  IF Len(str) = 0 THEN <<>>
  ELSE IF IsCh(str[1], " ") THEN parseInt(Tail(str))
  ELSE IF str[1].k = "int" THEN <<str[1].v>>
  ELSE <<>>

\* Math.max(a, x): NaN when x is NaN
MathMax(a, x) == IF Len(x) = 0 THEN <<>> ELSE <<Max(a, x[1])>>

\* props["INTERVAL"] ? Math.max(1, parseInt(props["INTERVAL"], 10)) : 1
\* (the empty string is falsy)
IntervalOf(props) ==
  IF "INTERVAL" \in DOMAIN props /\ Len(props["INTERVAL"]) > 0
  THEN MathMax(1, parseInt(props["INTERVAL"]))
  ELSE <<1>>

\* parseRRule of a rule string whose INTERVAL is a text: null for a frequency
\* that is not supported, else the rule with the interval read from the text
parseRRuleText(props) ==
  LET rest == [k \in DOMAIN props \ {"INTERVAL"} |-> props[k]]
      parsed == parseRRule(rest)
  IN  IF Len(parsed) = 0 THEN <<>>
      ELSE <<[parsed[1] EXCEPT !.interval = IntervalOf(props)]>>

\* the texts of INTERVAL drawn: empty, zero, negative, positive, with leading
\* blanks, followed by other characters, a fraction, and texts that start no
\* numeral
IntervalTexts ==
  { <<>>, <<Numeral(0)>>, <<Numeral(-3)>>, <<Numeral(1)>>, <<Numeral(2)>>,
    <<Numeral(MaxInterval + 8)>>, <<Blank, Numeral(4)>>, <<Blank, Blank, Numeral(-1)>>,
    <<Numeral(2), Word("abc")>>, <<Numeral(1), Ch("."), Numeral(5)>>,
    <<Word("abc")>>, <<Word("x"), Numeral(2)>>, <<Blank>>, <<Ch("."), Numeral(5)>> }

\* rule strings with any frequency or none, INTERVAL absent or any of the
\* texts, and a count or none
RuleInit ==
  \E f \in {<<>>} \cup {<<q>> : q \in FREQS \cup {"HOURLY", "daily"}},
     iv \in {<<>>} \cup {<<t>> : t \in IntervalTexts},
     c \in {<<>>, <<MaxCount>>} :
    /\ ruleStr = Prop("FREQ", f) @@ Prop("INTERVAL", iv) @@ Prop("COUNT", c)
    /\ parsedRule = <<>>
    /\ pc = "rule"
    /\ event = NoFields
    /\ windowStart = 0
    /\ windowEnd = 0
    /\ excludedTimes = {}
    /\ results = <<>>
    /\ locals = NoLocals
    /\ text = <<>>
    /\ allEvents = <<>>
    /\ now = 0
    /\ occurrences = <<>>
    /\ icsCache = <<>>
    /\ recurringCache = <<>>
    /\ clock = 0
    /\ served = <<>>
    /\ calls = <<>>
    /\ exec = <<>>
    /\ imap = <<>>

\* const rule = parseRRule(event.rrule)
ParseRule ==
  /\ pc = "rule"
  /\ parsedRule' = <<parseRRuleText(ruleStr)>>
  /\ pc' = "ruleParsed"
  /\ UNCHANGED <<ruleStr, callVars, feedVars, cacheVars, mailVars>>

RuleNext == ParseRule

RuleSpec == RuleInit /\ [][RuleNext]_vars

-----------------------------------------------------------------------------
(* get_events with its two caches, under concurrent calls.  The event loop *)
(* runs one callback at a time: a call runs from its start to its first    *)
(* await (fetch), from there to the next (response.text()), and from there *)
(* to its return; a call that finds the feed cached runs to its return.    *)
(* The last stretch is two steps, up to getCachedRecurring and from there  *)
(* on, with no step of another call or of the environment in between.      *)
(* Date.now() may advance inside a stretch.  The                            *)
(* clock counts minutes; the day does not change during a run, so          *)
(* expandAllRecurring sees the same date throughout.                       *)

\* 2 * 60 * 1000 ms
CACHE_TTL_MS == 2

\* the clock stops here
MaxClock == 3

Urls == {"work", "home"}
Calls == {"c1", "c2"}

\* the date of the run
Today == NewDate(2024, 0, 20, 0)

\* the texts a server may hold: a weekly meeting and a one-off event; the
\* meeting moved to another weekday and a cancelled date
FeedTexts ==
  << makeICS(VEvent("m@test", "Meeting", DateValue("UTC", 2024, 1, 8, 1),
                    <<Line("RRULE", <<RuleValue(("FREQ" :> "WEEKLY") @@ ("COUNT" :> 3))>>)>>)
             \o VEvent("d@test", "Dentist", DateValue("UTC", 2024, 1, 22, 1), <<>>)),
     makeICS(VEvent("m@test", "Meeting", DateValue("UTC", 2024, 1, 9, 1),
                    <<Line("RRULE", <<RuleValue(("FREQ" :> "WEEKLY") @@ ("COUNT" :> 3))>>),
                      Line("EXDATE", <<DateValue("UTC", 2024, 1, 16, 1)>>)>>)
             \o VEvent("d@test", "Dentist", DateValue("UTC", 2024, 1, 22, 1), <<>>)) >>

\* parseICS and expandAllRecurring on the lists that occur, computed once
ParsedFeed == [v \in DOMAIN FeedTexts |-> parseICS(FeedTexts[v])]
ExpandedOf ==
  [P \in {ParsedFeed[v] : v \in DOMAIN FeedTexts} |-> expandAllRecurring(P, Today)]

\* the variables get_events with its caches leaves alone
restVars == <<pc, callVars, feedVars, ruleVars, mailVars>>

\* the entry is absent or past its expiry at time t:
\* !entry || Date.now() > entry.expiresAt
IsStale(entry, t) == Len(entry) = 0 \/ t > entry[1].expiresAt

\* { events, expiresAt: Date.now() + CACHE_TTL_MS }
Entry(events, t) == <<[events |-> events, expiresAt |-> t + CACHE_TTL_MS]>>

\* the recurring occurrences are kept after a fresh fetch
DiscardRecurring_Keeps(cache, url) == cache

\* recurringCache.delete(calendar.url)
DiscardRecurring(cache, url) == [cache EXCEPT ![url] = <<>>]

NoCall == [pc |-> "idle", url |-> "", allParsed |-> <<>>, recurringOccurrences |-> <<>>]

\* the later readings of Date.now() inside a step
Later(t) == {u \in t..(t + 1) : u <= MaxClock}

\* A call is between getCached or setCached and getCachedRecurring.  The
\* callback runs on without interruption: no other step is taken meanwhile.
Running == \E c \in Calls : calls[c].pc = "combining"

\* getEvents up to its first await or, when the feed is cached, up to
\* getCachedRecurring
GetEvents(c, url) ==
  /\ ~Running
  /\ calls[c].pc = "idle"
  /\ IF IsStale(icsCache[url], clock)
     THEN /\ icsCache' = [icsCache EXCEPT ![url] = <<>>]
          /\ calls' = [calls EXCEPT ![c] = [NoCall EXCEPT !.pc = "fetching", !.url = url]]
     ELSE /\ UNCHANGED icsCache
          /\ calls' = [calls EXCEPT ![c] =
                         [NoCall EXCEPT !.pc = "combining", !.url = url,
                                        !.allParsed = <<icsCache[url][1].events>>]]
  /\ UNCHANGED <<recurringCache, clock, served, restVars>>

\* await fetch(calendar.url) resolves with response.ok
FetchResponds(c) ==
  /\ ~Running
  /\ calls[c].pc = "fetching"
  /\ calls' = [calls EXCEPT ![c].pc = "reading"]
  /\ UNCHANGED <<icsCache, recurringCache, clock, served, restVars>>

\* fetch or response.text() rejects, or the response is not ok: the call
\* returns its failure message
FetchFails(c) ==
  /\ ~Running
  /\ calls[c].pc \in {"fetching", "reading"}
  /\ calls' = [calls EXCEPT ![c].pc = "failed"]
  /\ UNCHANGED <<icsCache, recurringCache, clock, served, restVars>>

\* await response.text() resolves: parseICS, setCached and
\* recurringCache.delete, up to getCachedRecurring
TextArrives(c) ==
  /\ ~Running
  /\ calls[c].pc = "reading"
  /\ LET url == calls[c].url
         allParsed == ParsedFeed[served[url]]
     IN  /\ icsCache' = [icsCache EXCEPT ![url] = Entry(allParsed, clock)]
         /\ recurringCache' = DiscardRecurring(recurringCache, url)
         /\ calls' = [calls EXCEPT ![c].pc = "combining", ![c].allParsed = <<allParsed>>]
  /\ UNCHANGED <<clock, served, restVars>>

\* From getCachedRecurring(url), read at time t2, to the return of the call:
\* the cached occurrences, or those expanded from allParsed and cached at t3.
Combine(c) ==
  /\ calls[c].pc = "combining"
  /\ \E t2 \in Later(clock) : \E t3 \in Later(t2) :
       LET url == calls[c].url
           hit == ~IsStale(recurringCache[url], t2)
       IN  /\ calls' = [calls EXCEPT
                          ![c].pc = "returned",
                          ![c].recurringOccurrences =
                             <<IF hit THEN recurringCache[url][1].events
                               ELSE ExpandedOf[calls[c].allParsed[1]]>>]
           /\ recurringCache' =
                IF hit THEN recurringCache
                ELSE [recurringCache EXCEPT
                        ![url] = Entry(calls'[c].recurringOccurrences[1], t3)]
           /\ clock' = IF hit THEN t2 ELSE t3
  /\ UNCHANGED <<icsCache, served, restVars>>

\* the tool is called again
CallAgain(c) ==
  /\ ~Running
  /\ calls[c].pc \in {"returned", "failed"}
  /\ calls' = [calls EXCEPT ![c] = NoCall]
  /\ UNCHANGED <<icsCache, recurringCache, clock, served, restVars>>

\* time passes between two callbacks
Tick ==
  /\ ~Running
  /\ clock < MaxClock
  /\ clock' = clock + 1
  /\ UNCHANGED <<icsCache, recurringCache, served, calls, restVars>>

\* the owner of a calendar changes it
FeedChanges(url) ==
  /\ ~Running
  /\ \E v \in DOMAIN FeedTexts \ {served[url]} : served' = [served EXCEPT ![url] = v]
  /\ UNCHANGED <<icsCache, recurringCache, clock, calls, restVars>>

CacheInit ==
  /\ icsCache = [u \in Urls |-> <<>>]
  /\ recurringCache = [u \in Urls |-> <<>>]
  /\ clock = 0
  /\ served \in [Urls -> DOMAIN FeedTexts]
  /\ calls = [c \in Calls |-> NoCall]
  /\ exec = <<>>
  /\ imap = <<>>
  /\ pc = "serving"
  /\ ruleStr = NoProps
  /\ parsedRule = <<>>
  /\ event = NoFields
  /\ windowStart = 0
  /\ windowEnd = 0
  /\ excludedTimes = {}
  /\ results = <<>>
  /\ locals = NoLocals
  /\ text = <<>>
  /\ allEvents = <<>>
  /\ now = 0
  /\ occurrences = <<>>

CacheNext ==
  \/ \E c \in Calls, url \in Urls : GetEvents(c, url)
  \/ \E c \in Calls : FetchResponds(c)
  \/ \E c \in Calls : FetchFails(c)
  \/ \E c \in Calls : TextArrives(c)
  \/ \E c \in Calls : Combine(c)
  \/ \E c \in Calls : CallAgain(c)
  \/ Tick
  \/ \E url \in Urls : FeedChanges(url)

CacheSpec == CacheInit /\ [][CacheNext]_vars

-----------------------------------------------------------------------------
(* execute of delete_mail and move_mail.  A step runs the call from one    *)
(* await to the next.  What the ImapFlow client does is not part of the    *)
(* repository: every promise of the client may resolve or reject, and      *)
(* messageDelete and messageMove may resolve to a falsy value.  imap.log   *)
(* lists the client calls and their completions in order.                  *)

Folders == {"INBOX", "Archive"}
Uids == {7, 8}

\* a string returned by execute
Message(kind) == [returns |-> TRUE, message |-> kind]

\* the call the tool makes on the locked mailbox
Operation == IF exec.tool = "delete_mail" THEN "messageDelete" ELSE "messageMove"

\* const folder = input.folder ?? "INBOX"
FolderOf(input) == IF Len(input.folder) = 0 THEN "INBOX" ELSE input.folder[1]

Logged(entry) == [imap EXCEPT !.log = Append(@, entry)]

\* the lock is released only when the operation did not throw
ReleaseOn_NoThrowOnly(outcome) == outcome # "throw"

\* try { ... } finally { lock.release(); }
ReleaseOn(outcome) == TRUE

\* execute up to its first await: loadImapConfig, then withClient up to
\* await client.connect()
Execute ==
  /\ exec.pc = "called"
  /\ IF exec.configError
     THEN /\ exec' = [exec EXCEPT !.pc = "returned",
                                  !.result = <<Message("Configuration error")>>]
          /\ UNCHANGED imap
     ELSE /\ exec' = [exec EXCEPT !.pc = "connecting"]
          /\ imap' = Logged("connect")
  /\ UNCHANGED <<pc, callVars, feedVars, ruleVars, cacheVars>>

\* connect resolves: fn is called and runs to await client.getMailboxLock(folder)
ConnectResolves ==
  /\ exec.pc = "connecting"
  /\ exec' = [exec EXCEPT !.pc = "locking"]
  /\ imap' = [imap EXCEPT !.session = "open",
                          !.log = @ \o <<"connected", "getMailboxLock">>]
  /\ UNCHANGED <<pc, callVars, feedVars, ruleVars, cacheVars>>

\* connect rejects: withClient throws before its try, execute catches
ConnectRejects ==
  /\ exec.pc = "connecting"
  /\ exec' = [exec EXCEPT !.pc = "returned", !.result = <<Message("IMAP error")>>]
  /\ UNCHANGED <<imap, pc, callVars, feedVars, ruleVars, cacheVars>>

\* getMailboxLock resolves: the operation is started
LockResolves ==
  /\ exec.pc = "locking"
  /\ FolderOf(exec) \in Folders
  /\ Len(imap.lock) = 0
  /\ exec' = [exec EXCEPT !.pc = "operating"]
  /\ imap' = [imap EXCEPT !.lock = <<FolderOf(exec)>>,
                          !.log = @ \o <<"locked", Operation>>]
  /\ UNCHANGED <<pc, callVars, feedVars, ruleVars, cacheVars>>

\* getMailboxLock rejects: fn throws, the finally of withClient calls logout
LockRejects ==
  /\ exec.pc = "locking"
  /\ exec' = [exec EXCEPT !.pc = "loggingOut", !.pending = <<"throw">>]
  /\ imap' = Logged("logout")
  /\ UNCHANGED <<pc, callVars, feedVars, ruleVars, cacheVars>>

\* what the operation may settle with: done only for a message that is in the
\* folder (and, for a move, a destination that exists)
Outcomes ==
  {"failed", "throw"}
    \cup (IF /\ exec.uid \in imap.mailboxes[FolderOf(exec)]
             /\ exec.tool = "move_mail" => exec.destination \in Folders
          THEN {"done"} ELSE {})

\* the mailboxes after the operation
MailboxesAfter(outcome) ==
  IF outcome # "done" THEN imap.mailboxes
  ELSE IF exec.tool = "delete_mail"
       THEN [imap.mailboxes EXCEPT ![FolderOf(exec)] = @ \ {exec.uid}]
       ELSE [f \in Folders |->
               IF f = exec.destination THEN imap.mailboxes[f] \cup {exec.uid}
               ELSE IF f = FolderOf(exec) THEN imap.mailboxes[f] \ {exec.uid}
               ELSE imap.mailboxes[f]]

\* the operation settles; the inner finally releases the lock, the finally of
\* withClient calls logout
OperationSettles ==
  /\ exec.pc = "operating"
  /\ \E outcome \in Outcomes :
       /\ exec' = [exec EXCEPT !.pc = "loggingOut", !.pending = <<outcome>>]
       /\ imap' = [imap EXCEPT
                     !.mailboxes = MailboxesAfter(outcome),
                     !.lock = IF ReleaseOn(outcome) THEN <<>> ELSE @,
                     !.log = @ \o (IF ReleaseOn(outcome) THEN <<"release">> ELSE <<>>)
                               \o <<"logout">>]
  /\ UNCHANGED <<pc, callVars, feedVars, ruleVars, cacheVars>>

\* the message execute returns for what fn settled with
MessageFor(pending) ==
  CASE pending = "throw" -> Message("IMAP error")
    [] pending = "failed" ->
         Message(IF exec.tool = "delete_mail" THEN "Failed to delete" ELSE "Failed to move")
    [] pending = "done" ->
         Message(IF exec.tool = "delete_mail" THEN "deleted" ELSE "moved")

\* logout settles: resolved, withClient settles as fn did; rejected, it throws
\* the error of logout; execute returns the message or catches
LogoutSettles ==
  /\ exec.pc = "loggingOut"
  /\ \E rejected \in BOOLEAN :
       exec' = [exec EXCEPT
                  !.pc = "returned",
                  !.result = <<IF rejected THEN Message("IMAP error")
                               ELSE MessageFor(exec.pending[1])>>]
  /\ imap' = [imap EXCEPT !.session = "closed"]
  /\ UNCHANGED <<pc, callVars, feedVars, ruleVars, cacheVars>>

\* the calls drawn: both tools, a message that is in INBOX, in Archive or
\* nowhere, the folder absent, present or not a folder of the server, the
\* destination a folder or not, and a configuration that loads or not
MailInit ==
  \E tool \in {"delete_mail", "move_mail"}, uid \in Uids \cup {9},
     folder \in {<<>>, <<"Archive">>, <<"Missing">>},
     destination \in {"Archive", "Nowhere"}, configError \in BOOLEAN,
     inbox \in {{7}, {7, 8}} :
    /\ tool = "delete_mail" => destination = "Archive"
    /\ exec = [tool |-> tool, uid |-> uid, folder |-> folder,
               destination |-> destination, configError |-> configError,
               pc |-> "called", pending |-> <<>>, result |-> <<>>]
    /\ imap = [mailboxes |-> [f \in Folders |-> IF f = "INBOX" THEN inbox ELSE Uids \ inbox],
               lock |-> <<>>, session |-> "none", log |-> <<>>]
    /\ pc = "mail"
    /\ ruleStr = NoProps
    /\ parsedRule = <<>>
    /\ icsCache = <<>>
    /\ recurringCache = <<>>
    /\ clock = 0
    /\ served = <<>>
    /\ calls = <<>>
    /\ event = NoFields
    /\ windowStart = 0
    /\ windowEnd = 0
    /\ excludedTimes = {}
    /\ results = <<>>
    /\ locals = NoLocals
    /\ text = <<>>
    /\ allEvents = <<>>
    /\ now = 0
    /\ occurrences = <<>>

MailNext ==
  \/ Execute
  \/ ConnectResolves
  \/ ConnectRejects
  \/ LockResolves
  \/ LockRejects
  \/ OperationSettles
  \/ LogoutSettles

MailSpec == MailInit /\ [][MailNext]_vars

-----------------------------------------------------------------------------
(* Vocabulary of the properties *)

Done == pc = "done"

HasRule == Len(event.rrule) > 0 /\ Len(parseRRule(event.rrule[1])) > 0
Rule == parseRRule(event.rrule[1])[1]
IsFreq(f) == HasRule /\ Rule.freq = f

HasCount == Len(Rule.count) > 0
HasUntil == Len(Rule.until) > 0

Starts(rs) == {rs[i].start : i \in 1..Len(rs)}

Duration == IF Len(event.end) > 0 THEN event.end[1] - event.start ELSE 0

\* the span of an occurrence starting at t overlaps the closed window [ws, we]
Overlaps(t, ws, we) == t <= we /\ (IF Duration > 0 THEN t + Duration ELSE t) >= ws

IsAscending(rs) == \A i \in 1..(Len(rs) - 1) : rs[i].start <= rs[i + 1].start

\* the n chronologically first elements of a set of instants
FirstN(S, n) == {t \in S : Cardinality({u \in S : u < t}) < n}

\* the day number of the Monday of the Monday-starting week of day z
MondayOfDay(z) == z - ((z + 3) % 7)

\* the weekdays a Weekly rule selects
SelectedDays ==
  IF Len(Rule.byDay) > 0 THEN {Rule.byDay[i].day : i \in 1..Len(Rule.byDay)}
  ELSE {getDay(event.start)}

\* t lies in a week a multiple of INTERVAL weeks after the week of the start
InSeriesWeek(t) ==
  ((MondayOfDay(DayOf(t)) - MondayOfDay(DayOf(event.start))) \div 7) % Rule.interval = 0

\* The dates of the Weekly series of the template up to instant h, as the
\* rule describes it: in-series weeks, selected weekdays, the template's time
\* of day, from the start on and up to the cutoff.
WeeklySeries(h) ==
  {t \in event.start..h :
     /\ TimeOf(t) = TimeOf(event.start)
     /\ getDay(t) \in SelectedDays
     /\ InSeriesWeek(t)
     /\ (HasUntil => t <= Rule.until[1])}

\* the series cut to the occurrence-count cap
CappedWeeklySeries(h) ==
  IF HasCount THEN FirstN(WeeklySeries(h), Rule.count[1]) ELSE WeeklySeries(h)

\* the occurrences of rs whose span overlaps [ws, we], in the order of rs
OverlappingOf(rs, ws, we) ==
  LET Test(o) == Overlaps(o.start, ws, we) IN SelectSeq(rs, Test)

\* the occurrences of rs that do not start at x, in the order of rs
WithoutStart(rs, x) ==
  LET Test(o) == o.start # x IN SelectSeq(rs, Test)

\* windows contained in the window of the call, cut at the emitted starts
SubWindows ==
  {w \in ({windowStart} \cup Starts(results))
           \X ({windowEnd} \cup {t + d : t \in Starts(results), d \in 0..1}) :
     windowStart <= w[1] /\ w[1] <= w[2] /\ w[2] <= windowEnd}

\* the number of calendar months from the month of the start to the month of h
MonthsUpTo(h) ==
  (getFullYear(h) - getFullYear(event.start)) * 12 + getMonth(h) - getMonth(event.start)

\* The dates of the Monthly same-day series up to the month of h: day D of
\* every month from the start month on that has a day D.
MonthlySameDaySeries(h) ==
  LET y0 == getFullYear(event.start)
      m0 == getMonth(event.start)
      D  == getDate(event.start)
  IN  {NewDate(y0, m0 + k, D, TimeOf(event.start)) :
         k \in {j \in 0..Max(0, MonthsUpTo(h)) : D <= daysInMonth(y0, m0 + j)}}

\* the month days of the nth (n > 0) or nth-from-end (n < 0) weekday wd of a month
NthWeekdayDays(y, m, wd, n) ==
  LET days == {d \in 1..daysInMonth(y, m) : getDay(NewDate(y, m, d, 0)) = wd}
  IN  {d \in days :
         IF n > 0 THEN Cardinality({e \in days : e < d}) = n - 1
         ELSE Cardinality({e \in days : e > d}) = (-n) - 1}

\* The dates of the Yearly series "nth weekday of the configured month", for
\* the years from the start year to the year of h.
YearlyNthSeries(h) ==
  LET m  == Rule.byMonth[1]
      wd == Rule.byDay[1].day
      n  == Rule.byDay[1].n[1]
  IN  UNION {{NewDate(y, m, d, TimeOf(event.start)) : d \in NthWeekdayDays(y, m, wd, n)} :
               y \in getFullYear(event.start)..getFullYear(h)}

\* the months a Monthly or Yearly period with the given anchor considers
MonthsConsidered(anchor) ==
  IF Rule.freq = "MONTHLY" THEN {getMonth(anchor)}
  ELSE IF Len(Rule.byMonth) > 0 THEN {Rule.byMonth[i] : i \in 1..Len(Rule.byMonth)}
  ELSE {getMonth(event.start)}

\* the number of periods after the first whose candidates are examined
CheckedPeriods == 2

-----------------------------------------------------------------------------
(* C1 *)

\* C1: the sequence returned by expandRecurring is in ascending order of
\* occurrence start, for every template, rule, window and exclusion set.
C1_AscendingOrder == Done => IsAscending(results)

-----------------------------------------------------------------------------
(* C2 *)

\* C2: window independence: for every window W1 contained in the window W2 of
\* the call, expanding over W1 returns exactly the occurrences of the expansion
\* over W2 whose span overlaps W1.
C2_WindowIndependence ==
  Done =>
    \A w \in SubWindows :
      expandRecurring(event, w[1], w[2], excludedTimes) = OverlappingOf(results, w[1], w[2])

-----------------------------------------------------------------------------
(* C3 *)

\* C3: for a Weekly rule with COUNT = N, no exclusions and a window that starts
\* at or before the template's start and contains more than N dates of the
\* uncapped series, exactly N occurrences are returned and they are the first
\* N dates of the series.
C3_CountYieldsFirstN ==
  (/\ Done /\ IsFreq("WEEKLY") /\ HasCount /\ excludedTimes = {}
   /\ windowStart <= event.start
   /\ Cardinality(WeeklySeries(windowEnd)) > Rule.count[1])
  => /\ Len(results) = Rule.count[1]
     /\ Starts(results) = FirstN(WeeklySeries(windowEnd), Rule.count[1])

-----------------------------------------------------------------------------
(* C4 *)

\* C4: adding one instant x to the exclusion set of a Weekly series removes
\* from the result exactly the occurrence starting at x and leaves the others
\* unchanged; with a count cap N the result never holds an occurrence beyond
\* the Nth date of the series, excluded dates included in the count.
C4_ExclusionRemovesExactlyOne ==
  (Done /\ IsFreq("WEEKLY")) =>
    /\ \A x \in Starts(results) \cup {event.start + 1} :
         expandRecurring(event, windowStart, windowEnd, excludedTimes \cup {x})
           = WithoutStart(results, x)
    /\ HasCount => Starts(results) \subseteq FirstN(WeeklySeries(windowEnd), Rule.count[1])

-----------------------------------------------------------------------------
(* C5 *)

\* C5: with a count cap N >= 1 no period is skipped before the expansion, and
\* an occurrence is emitted only if it is among the first N dates of the
\* series counted from the template's start, whether or not those dates lie
\* before the window (shown on the Weekly series).
C5_PreWindowCandidatesCount ==
  (Done /\ HasRule /\ HasCount /\ Rule.count[1] >= 1) =>
    /\ FastForwardSkip(Rule, event.start, windowStart) = 0
    /\ IsFreq("WEEKLY") =>
         \A i \in 1..Len(results) :
           Cardinality({t \in WeeklySeries(windowEnd) : t < results[i].start}) < Rule.count[1]

-----------------------------------------------------------------------------
(* C6 *)

\* C6: for a Monthly rule with interval 1 and no selectors, whose template
\* starts on day D: every emitted occurrence is on day D, and with no cap, no
\* cutoff and no exclusions the result holds exactly one occurrence for every
\* month from the start month on that has a day D and whose occurrence
\* overlaps the window, and none for a month without a day D.
C6_MonthlySameDay ==
  (/\ Done /\ IsFreq("MONTHLY") /\ Rule.interval = 1
   /\ Len(Rule.byMonthDay) = 0 /\ Len(Rule.byDay) = 0)
  => /\ \A i \in 1..Len(results) : getDate(results[i].start) = getDate(event.start)
     /\ (~HasCount /\ ~HasUntil /\ excludedTimes = {}) =>
          /\ Starts(results) = {t \in MonthlySameDaySeries(windowEnd) :
                                  t >= event.start /\ Overlaps(t, windowStart, windowEnd)}
          /\ Len(results) = Cardinality(Starts(results))

-----------------------------------------------------------------------------
(* C7 *)

\* C7: every candidate generated for a Monthly or Yearly period lies in the
\* anchor's year and in the month under consideration (the anchor's month, or
\* a configured month or the template's own month), for every selector the
\* parser can produce.
C7_CandidatesInsideMonth ==
  (Done /\ (IsFreq("MONTHLY") \/ IsFreq("YEARLY"))) =>
    \A j \in 0..CheckedPeriods :
      LET anchor == AdvanceTimes(Rule, event.start, j)
          cands  == getCandidates(Rule, anchor, event.start)
      IN  \A i \in 1..Len(cands) :
            /\ getFullYear(cands[i]) = getFullYear(anchor)
            /\ getMonth(cands[i]) \in MonthsConsidered(anchor)

-----------------------------------------------------------------------------
(* C8 *)

\* C8: for a Weekly rule with interval 1 and no weekday selector, every
\* emitted occurrence falls on the weekday and at the time of day of the
\* template's start, and with no exclusions consecutive emitted occurrences
\* are exactly 7 calendar days apart; also after a fast-forward.
C8_PlainWeekly ==
  (Done /\ IsFreq("WEEKLY") /\ Rule.interval = 1 /\ Len(Rule.byDay) = 0)
  => /\ \A i \in 1..Len(results) :
          /\ getDay(results[i].start) = getDay(event.start)
          /\ TimeOf(results[i].start) = TimeOf(event.start)
     /\ excludedTimes = {} =>
          \A i \in 1..(Len(results) - 1) :
            results[i + 1].start - results[i].start = 7 * DAY_MS

\* a plain weekly template whose window starts long after its start (periods
\* were skipped by the fast-forward) and holds several occurrences
C8_Witness ==
  /\ Done /\ IsFreq("WEEKLY") /\ Rule.interval = 1 /\ Len(Rule.byDay) = 0
  /\ excludedTimes = {}
  /\ FastForwardSkip(Rule, event.start, windowStart) > 50
  /\ Len(results) >= 3

-----------------------------------------------------------------------------
(* C9 *)

\* C9: for a Weekly rule with interval k and weekday selectors, occurrences
\* are emitted only in Monday-starting weeks a multiple of k weeks after the
\* week of the template's start, and within each such week on exactly the
\* selected weekdays: with no count cap the result holds every date of the
\* series that is not excluded and overlaps the window.
C9_WeeklyIntervalByDay ==
  (Done /\ IsFreq("WEEKLY") /\ Len(Rule.byDay) > 0)
  => /\ \A i \in 1..Len(results) :
          /\ InSeriesWeek(results[i].start)
          /\ getDay(results[i].start) \in SelectedDays
     /\ ~HasCount =>
          Starts(results) = {t \in WeeklySeries(windowEnd) :
                               t \notin excludedTimes /\ Overlaps(t, windowStart, windowEnd)}

-----------------------------------------------------------------------------
(* C10 *)

\* C10: for a Yearly rule with interval 1, one configured month and one
\* weekday selector with ordinal n (no cap, cutoff or exclusions), the result
\* holds exactly one occurrence for each year from the start year whose nth
\* (nth-from-end for negative n) such weekday of that month exists, is not
\* before the template's start and overlaps the window.
C10_YearlyNthWeekday ==
  (/\ Done /\ IsFreq("YEARLY") /\ Rule.interval = 1
   /\ Len(Rule.byMonth) = 1 /\ Rule.byMonth[1] \in 0..11
   /\ Len(Rule.byDay) = 1 /\ Len(Rule.byDay[1].n) = 1 /\ Rule.byDay[1].n[1] # 0
   /\ ~HasCount /\ ~HasUntil /\ excludedTimes = {})
  => /\ Starts(results) = {t \in YearlyNthSeries(windowEnd) :
                             t >= event.start /\ Overlaps(t, windowStart, windowEnd)}
     /\ Len(results) = Cardinality(Starts(results))

-----------------------------------------------------------------------------
(* C11 *)

\* the anchor the main loop is entered with
FirstAnchor ==
  AdvanceTimes(Rule, event.start, FastForwardSkip(Rule, event.start, windowStart))

\* a lower bound, in days, of the distance of two successive anchors
MinPeriodDays ==
  Rule.interval * (CASE Rule.freq = "DAILY" -> 1 [] Rule.freq = "WEEKLY" -> 7
                     [] Rule.freq = "MONTHLY" -> 28 [] Rule.freq = "YEARLY" -> 365)

\* a number of passes after which the anchor is past the instant h
PeriodsUpTo(h) == (Max(0, h - FirstAnchor) \div (MinPeriodDays * DAY_MS)) + 2

\* The candidates of n successive periods from the given anchor on that are
\* not before the template's start, in the order they are generated, each
\* with the number j and the anchor a of its period.
RECURSIVE GeneratedFrom(_, _, _)
GeneratedFrom(anchor, j, n) ==
  IF n = 0 THEN <<>>
  ELSE LET cands == getCandidates(Rule, anchor, event.start)
           Test(g) == g.c >= event.start
       IN  SelectSeq([i \in 1..Len(cands) |-> [j |-> j, a |-> anchor, c |-> cands[i]]], Test)
             \o GeneratedFrom(advanceAnchor(Rule, anchor), j + 1, n - 1)

\* C11: with a cutoff no emitted occurrence starts after it, and every emitted
\* occurrence is a candidate generated before the first candidate beyond the
\* cutoff: nothing is emitted after that one, in its period or a later one.
C11_Cutoff ==
  (Done /\ HasRule /\ HasUntil) =>
    LET gen == GeneratedFrom(FirstAnchor, 0, PeriodsUpTo(Rule.until[1]))
        beyond == {p \in 1..Len(gen) : gen[p].c > Rule.until[1]}
    IN  \A k \in 1..Len(results) :
          /\ results[k].start <= Rule.until[1]
          /\ \E q \in 1..Len(gen) :
               /\ gen[q].c = results[k].start
               /\ \A p \in beyond : q < p

\* occurrences were emitted, and a candidate inside the window lies beyond the
\* cutoff, followed in its period by a candidate within the cutoff
C11_Witness ==
  /\ Done /\ HasRule /\ HasUntil /\ Len(results) > 0
  /\ LET gen == GeneratedFrom(FirstAnchor, 0, PeriodsUpTo(Rule.until[1]))
     IN  \E p \in 1..Len(gen) : \E q \in (p + 1)..Len(gen) :
           /\ gen[p].c > Rule.until[1] /\ gen[p].c <= windowEnd
           /\ gen[q].j = gen[p].j /\ gen[q].c <= Rule.until[1]

-----------------------------------------------------------------------------
(* C12 *)

\* C12: no emitted occurrence starts before the template's start, whatever
\* the rule and the window, and a window lying entirely before the template's
\* start yields an empty result.
C12_NotBeforeStart ==
  Done =>
    /\ \A i \in 1..Len(results) : results[i].start >= event.start
    /\ windowEnd < event.start => results = <<>>

\* the window begins before the template's start, the first period has a
\* candidate earlier than the start whose span overlaps the window, and
\* occurrences were emitted
C12_Witness ==
  /\ Done /\ HasRule /\ windowStart < event.start /\ Len(results) > 0
  /\ LET cands == getCandidates(Rule, FirstAnchor, event.start)
     IN  \E i \in 1..Len(cands) :
           cands[i] < event.start /\ Overlaps(cands[i], windowStart, windowEnd)

-----------------------------------------------------------------------------
(* C13 *)

\* the end of the occurrence starting at c (c itself when it has no end)
OccEnd(c) == IF Duration > 0 THEN c + Duration ELSE c

\* C13: every emitted occurrence overlaps the closed window, start <=
\* windowEnd and end (start when there is no end) >= windowStart; and the
\* bounds are inclusive: a date of the series (shown on the Weekly series
\* without cap) that is not excluded and starts exactly at windowEnd, or whose
\* occurrence ends exactly at windowStart, is emitted.
C13_InclusiveWindow ==
  (Done /\ HasRule) =>
    /\ \A i \in 1..Len(results) :
         /\ results[i].start <= windowEnd
         /\ (IF Len(results[i].end) > 0 THEN results[i].end[1] ELSE results[i].start)
              >= windowStart
    /\ (IsFreq("WEEKLY") /\ ~HasCount) =>
         \A t \in WeeklySeries(windowEnd) \ excludedTimes :
           (t = windowEnd \/ OccEnd(t) = windowStart) => t \in Starts(results)

\* The part of C13 the code satisfies: the overlap of every emitted
\* occurrence, and the inclusive bounds for the candidates the loop meets
\* (no cap, no cutoff).  The loop meets a candidate when the anchor of its
\* period is not past windowEnd and no candidate generated before it is past
\* windowEnd.
OverlapWhenMet ==
  (Done /\ HasRule) =>
    /\ \A i \in 1..Len(results) :
         /\ results[i].start <= windowEnd
         /\ OccEnd(results[i].start) >= windowStart
    /\ (~HasCount /\ ~HasUntil) =>
         LET gen == GeneratedFrom(FirstAnchor, 0, PeriodsUpTo(windowEnd))
             Met(p) == /\ gen[p].a <= windowEnd
                       /\ \A q \in 1..(p - 1) : gen[q].c <= windowEnd
         IN  \A p \in 1..Len(gen) :
               (/\ Met(p) /\ gen[p].c \notin excludedTimes
                /\ (gen[p].c = windowEnd
                     \/ (gen[p].c <= windowEnd /\ OccEnd(gen[p].c) = windowStart)))
               => gen[p].c \in Starts(results)

-----------------------------------------------------------------------------
(* C14 *)

\* o is the template with start and end replaced and rrule and exdates cleared
IsProjection(o) ==
  /\ DOMAIN o = DOMAIN event
  /\ \A f \in DOMAIN event \ {"start", "end", "rrule", "exdates"} : o[f] = event[f]
  /\ o.rrule = <<>>
  /\ o.exdates = <<>>

\* C14: every emitted occurrence is a projection of its template (uid,
\* summary, description, location, status, allDay equal, rrule and exclusion
\* list cleared, only start and end differ), and the call leaves the template
\* and the exclusion set it was given unchanged.
C14_Projection ==
  /\ [](Done => \A i \in 1..Len(results) : IsProjection(results[i]))
  /\ [][event' = event /\ excludedTimes' = excludedTimes]_vars

\* occurrences were emitted for a template that carries a description, a
\* location, a status, an exclusion list and a non-empty exclusion set
C14_Witness ==
  /\ Done /\ Len(results) > 1
  /\ Len(event.description) > 0 /\ Len(event.location) > 0 /\ Len(event.status) > 0
  /\ Len(event.exdates) > 0 /\ Len(event.rrule) > 0 /\ excludedTimes # {}

-----------------------------------------------------------------------------
(* C15 *)

\* C15: for a template that has an end, every emitted occurrence has an end
\* and its end minus its start equals the template's end minus its start; an
\* occurrence has no end only when the template had none.
C15_Duration ==
  Done =>
    \A i \in 1..Len(results) :
      /\ Len(event.end) > 0 =>
           /\ Len(results[i].end) = 1
           /\ results[i].end[1] - results[i].start = event.end[1] - event.start
      /\ Len(results[i].end) = 0 => Len(event.end) = 0

-----------------------------------------------------------------------------
(* C16 *)

\* the record carries a rule string whose frequency is absent or is not one
\* of the four supported values
HasUnsupportedFreq(ev) ==
  /\ Len(ev.rrule) > 0
  /\ \/ "FREQ" \notin DOMAIN ev.rrule[1]
     \/ ev.rrule[1]["FREQ"] \notin {"DAILY", "WEEKLY", "MONTHLY", "YEARLY"}

\* the feed without the records whose rule string is of that kind
WithoutUnsupported(events) == SelectSeq(events, LAMBDA ev : ~HasUnsupportedFreq(ev))

\* the rule string parses to no rule and the record expands to nothing, in the
\* window and with the excluded set expandAllRecurring uses
DegradesToNothing(ev) ==
  /\ parseRRule(ev.rrule[1]) = <<>>
  /\ expandRecurring(ev, now - RECURRING_LOOKBACK_DAYS * DAY_MS,
                     now + RECURRING_LOOKAHEAD_DAYS * DAY_MS,
                     Excluded(allEvents, ev)) = <<>>

\* C16: a rule string whose frequency is absent or not one of DAILY, WEEKLY,
\* MONTHLY, YEARLY parses to no rule and expandRecurring returns the empty
\* sequence for its template; the expansion of the feed is the expansion of
\* the feed without that template.
C16_UnparseableRuleIsolated ==
  pc = "expanded" =>
    /\ \A i \in 1..Len(allEvents) :
         HasUnsupportedFreq(allEvents[i]) => DegradesToNothing(allEvents[i])
    /\ occurrences = expandAllRecurring(WithoutUnsupported(allEvents), now)

\* the same for the feeds in which no record with such a rule string carries
\* a RECURRENCE-ID as well
IsolatedUnlessOverride ==
  (pc = "expanded"
     /\ \A i \in 1..Len(allEvents) :
          HasUnsupportedFreq(allEvents[i]) => Len(allEvents[i].recurrenceId) = 0) =>
    /\ \A i \in 1..Len(allEvents) :
         HasUnsupportedFreq(allEvents[i]) => DegradesToNothing(allEvents[i])
    /\ occurrences = expandAllRecurring(WithoutUnsupported(allEvents), now)

-----------------------------------------------------------------------------
(* C17 *)

\* C17: expandRecurring terminates for every template, rule and window: the
\* fast-forward loop makes its finite number of passes, the main loop makes at
\* most MAX_ITER passes, and a result is eventually returned.
C17_Terminates ==
  /\ [](locals.i <= locals.skip /\ locals.loop.iter <= MAX_ITER)
  /\ [](pc = "done" \/ StepPossible)
  /\ <>(pc = "done")

\* a call has returned after the main loop made all its MAX_ITER passes
C17_Witness == pc = "done" /\ locals.loop.iter = MAX_ITER

\* the call followed step by step returns what expandRecurring returns
StepwiseAgrees ==
  pc = "done" => results = expandRecurring(event, windowStart, windowEnd, excludedTimes)

-----------------------------------------------------------------------------
(* C18 *)

\* the position of the BEGIN:VEVENT line that opened the block closed at e:
\* the last one before e with no END:VEVENT in between; 0 if there is none
BlockBegin(lines, e) ==
  LET Opens == {b \in 1..(e - 1) :
                  /\ IsLine(lines[b], "BEGIN", "VEVENT")
                  /\ \A j \in (b + 1)..(e - 1) : ~IsLine(lines[j], "END", "VEVENT")}
  IN  IF Opens = {} THEN 0 ELSE CHOOSE b \in Opens : \A c \in Opens : c <= b

\* the property called name of the block of lines b+1 .. e-1: <<>> if the
\* block has no such line, else the last one, which is the one that stays
LastProperty(lines, b, e, name) ==
  LET At == {i \in (b + 1)..(e - 1) :
               b > 0 /\ Len(parseLine(lines[i])) = 1
                 /\ IsText(parseLine(lines[i])[1].name, name)}
  IN  IF At = {} THEN <<>>
      ELSE parseLine(lines[CHOOSE i \in At : \A j \in At : j <= i])

\* the date values of the lines called name among lines i .. e-1, in the
\* order of the feed
RECURSIVE DatesOfLines(_, _, _, _)
DatesOfLines(lines, i, e, name) ==
  IF i >= e THEN <<>>
  ELSE LET parsed == parseLine(lines[i])
           IsDate(p) == p.k = "date"
           values == IF Len(parsed) = 1 /\ IsText(parsed[1].name, name)
                     THEN SelectSeq(parsed[1].value, IsDate) ELSE <<>>
       IN  [j \in 1..Len(values) |-> parseICSDate(<<values[j]>>, parsed[1].params).date]
             \o DatesOfLines(lines, i + 1, e, name)

\* what the block closed at e says of the three required properties, of the
\* description, of the rule, of the override marker and of the exclusions
BlockAt(lines, e) ==
  LET b == BlockBegin(lines, e)
  IN  [uid |-> LastProperty(lines, b, e, "UID"),
       summary |-> LastProperty(lines, b, e, "SUMMARY"),
       start |-> LastProperty(lines, b, e, "DTSTART"),
       description |-> LastProperty(lines, b, e, "DESCRIPTION"),
       rrule |-> LastProperty(lines, b, e, "RRULE"),
       recurrenceId |-> LastProperty(lines, b, e, "RECURRENCE-ID"),
       exdates |-> IF b = 0 THEN <<>> ELSE DatesOfLines(lines, b + 1, e, "EXDATE")]

\* the blocks of the feed, in the order of their END:VEVENT lines
RECURSIVE BlocksTo(_, _)
BlocksTo(lines, n) ==
  IF n = 0 THEN <<>>
  ELSE BlocksTo(lines, n - 1)
         \o (IF IsLine(lines[n], "END", "VEVENT") THEN <<BlockAt(lines, n)>> ELSE <<>>)

Blocks == BlocksTo(unfoldLines(text), Len(unfoldLines(text)))

\* the block has a uid and a summary that are not empty, and a start
IsCompleteBlock(blk) ==
  /\ Len(blk.uid) = 1 /\ Len(blk.uid[1].value) > 0
  /\ Len(blk.summary) = 1 /\ Len(blk.summary[1].value) > 0
  /\ Len(blk.start) = 1

\* the record carries the uid and the start of the block
IsRecordOf(r, blk) ==
  /\ r.uid = blk.uid[1].value
  /\ r.start = parseICSDate(blk.start[1].value, blk.start[1].params).date

\* C18: every record returned by parseICS has a non-empty uid, a non-empty
\* summary and the start of its event block; the records are those of the
\* blocks that have all three at their END:VEVENT, in their order, so a block
\* that lacks one of them gives no record.
C18_RequiredFields ==
  pc \in {"parsed", "expanded"} =>
    LET complete == SelectSeq(Blocks, IsCompleteBlock) IN
    /\ Len(allEvents) = Len(complete)
    /\ \A i \in 1..Len(allEvents) :
         /\ Len(allEvents[i].uid) > 0
         /\ Len(allEvents[i].summary) > 0
         /\ IsRecordOf(allEvents[i], complete[i])

\* a feed was decoded that has a complete block and a closed block with a
\* summary and a start but an empty uid
C18_Witness ==
  /\ pc = "parsed"
  /\ Len(allEvents) = 1
  /\ \E k \in 1..Len(Blocks) :
       /\ Len(Blocks[k].uid) = 1 /\ Len(Blocks[k].uid[1].value) = 0
       /\ Len(Blocks[k].summary) = 1 /\ Len(Blocks[k].summary[1].value) > 0
       /\ Len(Blocks[k].start) = 1

-----------------------------------------------------------------------------
(* C19 *)

\* the line opens (word "BEGIN") or closes ("END") a component that is neither
\* an event nor the calendar itself
IsOtherMarker(line, word) ==
  /\ Len(line) = 3 /\ IsWord(line[1], word) /\ IsCh(line[2], ":")
  /\ line[3].k = "word" /\ line[3].v \notin {"VEVENT", "VCALENDAR"}

\* the feed without the components of another kind than the event kind, their
\* markers and everything between them; with nestedToo those inside an event
\* block as well, otherwise only those outside the event blocks
RECURSIVE WithoutOtherComponents(_, _, _, _)
WithoutOtherComponents(lines, depth, inEvent, nestedToo) ==
  IF Len(lines) = 0 THEN <<>>
  ELSE
    LET line == Head(lines)
        rest == Tail(lines)
    IN  IF depth > 0
        THEN WithoutOtherComponents(rest,
               IF IsOtherMarker(line, "BEGIN") THEN depth + 1
               ELSE IF IsOtherMarker(line, "END") THEN depth - 1 ELSE depth,
               inEvent, nestedToo)
        ELSE IF IsOtherMarker(line, "BEGIN") /\ (nestedToo \/ ~inEvent)
        THEN WithoutOtherComponents(rest, 1, inEvent, nestedToo)
        ELSE <<line>> \o
             WithoutOtherComponents(rest, 0,
               IF IsLine(line, "BEGIN", "VEVENT") THEN TRUE
               ELSE IF IsLine(line, "END", "VEVENT") THEN FALSE ELSE inEvent,
               nestedToo)

\* C19: the properties of a component that is not an event (to-do, journal,
\* alarm, any nested sub-component) contribute no field to any record: the
\* feed decodes to what it decodes to without those components, whether they
\* lie outside the event blocks or between BEGIN:VEVENT and END:VEVENT.
C19_OnlyEventProperties ==
  pc \in {"parsed", "expanded"} =>
    allEvents = parseICS(WithoutOtherComponents(text, 0, FALSE, TRUE))

\* the same for the components outside the event blocks only
OuterComponentsIgnored ==
  pc \in {"parsed", "expanded"} =>
    allEvents = parseICS(WithoutOtherComponents(text, 0, FALSE, FALSE))

-----------------------------------------------------------------------------
(* C20 *)

\* the record of every complete block whose DESCRIPTION is the escaping of a
\* text of Texts that meets the condition has that text as its description
RoundTripFor(Meets(_)) ==
  pc \in {"parsed", "expanded"} =>
    LET complete == SelectSeq(Blocks, IsCompleteBlock) IN
    \A i \in 1..Len(complete) :
      Len(complete[i].description) = 1 =>
        \A t \in Texts :
          (Meets(t) /\ complete[i].description[1].value = Escape(t)) =>
            allEvents[i].description = <<t>>

\* C20: unescaping inverts escaping: for every text over backslash, comma,
\* semicolon, line feed and the letter n, unescapeValue of the escaped text
\* (backslash -> \\, line feed -> \n, comma -> \, , semicolon -> \;) is the
\* text.
C20_UnescapeInvertsEscape == RoundTripFor(LAMBDA t : TRUE)

\* the same for the texts without a backslash
RoundTripWithoutBackslash ==
  RoundTripFor(LAMBDA t : \A j \in 1..Len(t) : ~IsCh(t[j], "\\"))

-----------------------------------------------------------------------------
(* C21 *)

\* the block has a line of the name, at its END:VEVENT
HasProperty(blk, name) == Len(blk[name]) = 1

\* C21: every record returned by parseICS has at most one of rrule and
\* recurrenceId set, also for an event block that carries both an RRULE line
\* and a RECURRENCE-ID line; the record of a block with neither line has
\* neither.
C21_RuleOrOverride ==
  pc \in {"parsed", "expanded"} =>
    LET complete == SelectSeq(Blocks, IsCompleteBlock) IN
    \A i \in 1..Len(allEvents) :
      /\ ~(Len(allEvents[i].rrule) > 0 /\ Len(allEvents[i].recurrenceId) > 0)
      /\ (~HasProperty(complete[i], "rrule") /\ ~HasProperty(complete[i], "recurrenceId"))
           => (Len(allEvents[i].rrule) = 0 /\ Len(allEvents[i].recurrenceId) = 0)

\* the second half alone: a block with neither line gives a record with neither
NeitherLineNeitherField ==
  pc \in {"parsed", "expanded"} =>
    LET complete == SelectSeq(Blocks, IsCompleteBlock) IN
    \A i \in 1..Len(allEvents) :
      (~HasProperty(complete[i], "rrule") /\ ~HasProperty(complete[i], "recurrenceId"))
        => (Len(allEvents[i].rrule) = 0 /\ Len(allEvents[i].recurrenceId) = 0)

-----------------------------------------------------------------------------
(* C22 *)

\* the lines with new put in after the first p of them
InsertAt(lines, p, new) ==
  SubSeq(lines, 1, p) \o new \o SubSeq(lines, p + 1, Len(lines))

\* no event block is open after the first p lines: the last marker among them,
\* if any, is END:VEVENT
IsOutside(lines, p) ==
  \A b \in 1..p :
    IsLine(lines[b], "BEGIN", "VEVENT") =>
      \E e \in (b + 1)..p : IsLine(lines[e], "END", "VEVENT")

\* lines without a colon and lines with a name that is not recognised
BadLines ==
  { <<Word("garbage")>>,
    <<Word("DTSTART"), Ch(";"), Word("VALUE"), Ch("="), Word("DATE")>>,
    Line("X-CUSTOM", <<Word("1")>>),
    Line("ATTENDEE", <<Word("mailto"), Ch(":"), Word("x@test")>>) }

\* event blocks that lack a required property, and one that has them all but
\* is not closed by END:VEVENT
BadBlocks ==
  { <<Line("BEGIN", <<Word("VEVENT")>>), Line("SUMMARY", <<Word("No uid")>>),
      Line("DTSTART", <<DateValue("UTC", 2024, 1, 9, 1)>>),
      Line("RRULE", <<RuleValue("FREQ" :> "DAILY")>>),
      Line("END", <<Word("VEVENT")>>)>>,
    <<Line("BEGIN", <<Word("VEVENT")>>), Line("UID", <<Word("bad@test")>>),
      Line("SUMMARY", <<Word("No start")>>),
      Line("DESCRIPTION", <<Word("Incomplete")>>),
      Line("END", <<Word("VEVENT")>>)>>,
    <<Line("BEGIN", <<Word("VEVENT")>>), Line("UID", <<Word("bad@test")>>),
      Line("SUMMARY", <<Word("Not closed")>>),
      Line("DTSTART", <<DateValue("UTC", 2024, 1, 9, 1)>>),
      Line("DESCRIPTION", <<Word("Incomplete")>>),
      Line("EXDATE", <<DateValue("UTC", 2024, 1, 10, 1)>>)>> }

\* C22: parseICS returns a sequence for every feed, and a bad line or block
\* does not affect the others: with a line without a colon or a line of an
\* unrecognised name put in anywhere, or an event block that lacks a required
\* property or its END:VEVENT put in between the event blocks, the feed
\* decodes to the same records.
C22_BadBlockIsolated ==
  pc = "parsed" =>
    /\ \A p \in 0..Len(text) :
         \A bad \in BadLines : parseICS(InsertAt(text, p, <<bad>>)) = allEvents
    /\ \A p \in 0..Len(text) :
         IsOutside(text, p) =>
           \A bad \in BadBlocks : parseICS(InsertAt(text, p, bad)) = allEvents

\* a feed of three complete blocks was decoded; it decodes to the same three
\* records with the open block put in before its second block
C22_Witness ==
  /\ pc = "parsed"
  /\ Len(allEvents) = 3
  /\ \E p \in 1..Len(text) :
       /\ IsOutside(text, p)
       /\ IsLine(text[p], "END", "VEVENT")
       /\ IsLine(text[p + 1], "BEGIN", "VEVENT")
       /\ \E bad \in BadBlocks :
            /\ ~IsLine(bad[Len(bad)], "END", "VEVENT")
            /\ parseICS(InsertAt(text, p, bad)) = allEvents

-----------------------------------------------------------------------------
(* C23 *)

\* C23: the exclusion list of a record holds the values of all EXDATE lines of
\* its own block, in the order of the feed, several lines and several values
\* on one line alike, and nothing else; the record of a block without an
\* EXDATE line has no list.
C23_ExdatesAccumulate ==
  pc \in {"parsed", "expanded"} =>
    LET complete == SelectSeq(Blocks, IsCompleteBlock) IN
    \A i \in 1..Len(allEvents) :
      allEvents[i].exdates =
        (IF Len(complete[i].exdates) = 0 THEN <<>> ELSE <<complete[i].exdates>>)

\* a feed was decoded in which one block has two EXDATE lines with three
\* values in all and the other block has one value or none
C23_Witness ==
  /\ pc = "parsed"
  /\ Len(allEvents) = 2
  /\ \E i, j \in 1..2 :
       /\ Len(allEvents[i].exdates) = 1 /\ Len(allEvents[i].exdates[1]) = 3
       /\ Len(allEvents[j].exdates) = 0 \/ Len(allEvents[j].exdates[1]) = 1

-----------------------------------------------------------------------------
(* C24 *)

\* the months from year 0 to the month of d
MonthIndex(d) == getFullYear(d) * 12 + getMonth(d)

\* the anchor after j advancements lies j * interval months after the start
SteppedMonths(j) ==
  MonthIndex(AdvanceTimes(Rule, event.start, j))
    = MonthIndex(event.start) + j * Rule.interval

\* C24: for a monthly rule the anchor after j advancements lies in the month
\* j * interval months after the month of the template's start, whatever the
\* day of the month of the start, and every emitted occurrence lies in a
\* month that is a multiple of interval months after it.
C24_MonthlyStepping ==
  (Done /\ HasRule /\ Rule.freq = "MONTHLY") =>
    /\ \A j \in 0..CheckedPeriods : SteppedMonths(j)
    /\ \A k \in 1..Len(results) :
         (MonthIndex(results[k].start) - MonthIndex(event.start)) % Rule.interval = 0

\* the same for the templates that start on a day up to the 28th
SteppingUpTo28 ==
  (Done /\ HasRule /\ Rule.freq = "MONTHLY" /\ getDate(event.start) <= 28) =>
    \A j \in 0..CheckedPeriods : SteppedMonths(j)

-----------------------------------------------------------------------------
(* C25 *)

\* the fast-forward applies: no count cap and the template starts before the
\* window
FastForwards == Done /\ HasRule /\ NoCount(Rule) /\ event.start < windowStart

\* C25: when the fast-forward applies, the anchor after it is not later than
\* the start of the window, and the result equals the one of the main loop
\* entered with the template's start as anchor.
C25_NoOvershoot ==
  FastForwards =>
    /\ FirstAnchor <= windowStart
    /\ results = ExpandFrom(event, Rule, windowStart, windowEnd, excludedTimes,
                            event.start)

\* the anchor after the fast-forward is not later than the start of the window
AnchorNotPastWindowStart == FastForwards => FirstAnchor <= windowStart

-----------------------------------------------------------------------------
(* C26 *)

\* a Weekly rule with weekday selectors, or a Monthly rule with month-day or
\* weekday selectors
HasPeriodSelectors ==
  /\ HasRule
  /\ \/ Rule.freq = "WEEKLY" /\ Len(Rule.byDay) > 0
     \/ Rule.freq = "MONTHLY" /\ (Len(Rule.byMonthDay) > 0 \/ Len(Rule.byDay) > 0)

\* the candidate is not before the start (all of gen are not), within the
\* cutoff and the count, not excluded, and its span overlaps the window
IsDue(gen, q) ==
  /\ HasUntil => gen[q].c <= Rule.until[1]
  /\ HasCount => q <= Rule.count[1]
  /\ gen[q].c \notin excludedTimes
  /\ Overlaps(gen[q].c, windowStart, windowEnd)

\* C26: for a Weekly rule with weekday selectors and a Monthly rule with
\* month-day or weekday selectors, every candidate of a period of the series
\* that is not before the template's start, within the cutoff and the count,
\* not excluded and overlapping the window is emitted, also when the window
\* ends on a day of the period earlier than the day of the anchor.
C26_PeriodComplete ==
  (Done /\ HasPeriodSelectors) =>
    LET gen == GeneratedFrom(FirstAnchor, 0, PeriodsUpTo(windowEnd))
    IN  \A q \in 1..Len(gen) : IsDue(gen, q) => gen[q].c \in Starts(results)

\* the same for the periods whose anchor is not after the end of the window
\* nor the cutoff, and whose candidates up to the one looked at are not after
\* them either
CompleteUpToAnchor ==
  (Done /\ HasPeriodSelectors) =>
    LET gen == GeneratedFrom(FirstAnchor, 0, PeriodsUpTo(windowEnd))
        last == IF HasUntil /\ Rule.until[1] < windowEnd THEN Rule.until[1]
                ELSE windowEnd
    IN  \A q \in 1..Len(gen) :
          (/\ IsDue(gen, q)
           /\ gen[q].a <= last
           /\ \A p \in 1..q : gen[p].c <= last)
            => gen[q].c \in Starts(results)

-----------------------------------------------------------------------------
(* C27 *)

\* parseRRule returned a rule
RuleParsed == pc = "ruleParsed" /\ Len(parsedRule[1]) = 1

\* C27: for every rule string with a supported frequency the parsed interval
\* is an integer of at least 1: it is 1 when INTERVAL is absent, and at least
\* 1 whatever the text of INTERVAL is when it is present.
C27_IntervalAtLeastOne ==
  RuleParsed =>
    LET interval == parsedRule[1][1].interval IN
    /\ Len(interval) = 1 /\ interval[1] >= 1
    /\ "INTERVAL" \notin DOMAIN ruleStr => interval = <<1>>

\* when the text of INTERVAL is empty or has a numeral after its leading
\* blanks, the parsed interval is the larger of 1 and that integer
IntervalOfNumerals ==
  RuleParsed =>
    LET interval == parsedRule[1][1].interval IN
    /\ "INTERVAL" \notin DOMAIN ruleStr => interval = <<1>>
    /\ "INTERVAL" \in DOMAIN ruleStr =>
         LET t == ruleStr["INTERVAL"]
             IsNoBlank(p) == ~IsCh(p, " ")
             lead == SelectSeq(t, IsNoBlank)
         IN  /\ Len(t) = 0 => interval = <<1>>
             /\ (Len(lead) > 0 /\ lead[1].k = "int") =>
                  interval = <<Max(1, lead[1].v)>>

-----------------------------------------------------------------------------
(* C28 *)

\* the window expandAllRecurring expands over
LookbackStart == now - RECURRING_LOOKBACK_DAYS * DAY_MS
LookaheadEnd == now + RECURRING_LOOKAHEAD_DAYS * DAY_MS

\* the exclusion instants of the record itself and the override instants of
\* the records with its uid
OwnExclusions(ev) ==
  LET Overrides == {i \in 1..Len(allEvents) :
                      allEvents[i].uid = ev.uid /\ Len(allEvents[i].recurrenceId) = 1}
  IN  UNION ({ {ev.exdates[k][i] : i \in 1..Len(ev.exdates[k])} : k \in 1..Len(ev.exdates) }
               \cup { {allEvents[i].recurrenceId[1]} : i \in Overrides })

\* the occurrences of the templates with the given uid among the first n
\* records, each expanded without the instants of OwnExclusions
RECURSIVE ExpectedOfUid(_, _)
ExpectedOfUid(uid, n) ==
  IF n = 0 THEN <<>>
  ELSE ExpectedOfUid(uid, n - 1)
         \o (IF allEvents[n].uid = uid /\ Len(allEvents[n].rrule) > 0
             THEN expandRecurring(allEvents[n], LookbackStart, LookaheadEnd,
                                  OwnExclusions(allEvents[n]))
             ELSE <<>>)

\* C28: the occurrences expandAllRecurring returns for a uid are those of the
\* records with that uid that have a rule, each expanded with exactly its own
\* exclusion instants and the override instants of the records of its uid
\* excluded: an override of another uid suppresses nothing, and a record
\* without a rule is not expanded.
C28_ExclusionsPerUid ==
  pc = "expanded" =>
    \A i \in 1..Len(allEvents) :
      LET HasUid(o) == o.uid = allEvents[i].uid
      IN  SelectSeq(occurrences, HasUid) = ExpectedOfUid(allEvents[i].uid, Len(allEvents))

\* a feed was expanded in which an override record coincides with an
\* occurrence of a template of another uid, which is returned, and with one of
\* a template of its own uid, which is not
C28_Witness ==
  /\ pc = "expanded"
  /\ \E i \in 1..Len(allEvents) :
       /\ Len(allEvents[i].recurrenceId) = 1
       /\ \E k \in 1..Len(occurrences) :
            /\ occurrences[k].start = allEvents[i].recurrenceId[1]
            /\ occurrences[k].uid # allEvents[i].uid
       /\ \E k \in 1..Len(occurrences) :
            /\ occurrences[k].uid = allEvents[i].uid
            /\ occurrences[k].start < allEvents[i].recurrenceId[1]
       /\ \A k \in 1..Len(occurrences) :
            occurrences[k].uid = allEvents[i].uid =>
              occurrences[k].start # allEvents[i].recurrenceId[1]

-----------------------------------------------------------------------------
(* C29 *)

\* the occurrences a returned call uses are the expansion of the list it uses
CallsCoherent ==
  \A c \in Calls :
    calls[c].pc = "returned" =>
      calls[c].recurringOccurrences[1] = ExpandedOf[calls[c].allParsed[1]]

\* a call that fetched the feed caches its list and discards the occurrences
\* cached before, so that they are not read
FreshFetchDiscards ==
  \A c \in Calls :
    (calls[c].pc = "reading" /\ calls'[c].pc = "combining") =>
      LET url == calls[c].url IN
      /\ icsCache'[url][1].events = calls'[c].allParsed[1]
      /\ recurringCache'[url] = <<>>

\* a call that did not fetch took its list from an entry of icsCache not past
\* its expiry time; the occurrences a call takes from recurringCache are those
\* of an entry not past its expiry time, and otherwise it caches its own
NoExpiredEntryReturned ==
  \A c \in Calls :
    /\ (calls[c].pc = "idle" /\ calls'[c].pc = "combining") =>
         LET url == calls'[c].url IN
         /\ Len(icsCache[url]) = 1 /\ clock <= icsCache[url][1].expiresAt
         /\ calls'[c].allParsed[1] = icsCache[url][1].events
    /\ (calls[c].pc = "combining" /\ calls'[c].pc = "returned") =>
         LET url == calls[c].url IN
         \/ /\ recurringCache'[url] = recurringCache[url]
            /\ Len(recurringCache[url]) = 1
            /\ clock <= recurringCache[url][1].expiresAt
            /\ calls'[c].recurringOccurrences[1] = recurringCache[url][1].events
         \/ /\ recurringCache'[url] # recurringCache[url]
            /\ recurringCache'[url][1].events = calls'[c].recurringOccurrences[1]
            /\ recurringCache'[url][1].expiresAt >= icsCache[url][1].expiresAt

\* C29: under every interleaving of get_events calls, fetch completions,
\* clock ticks and changes of the feeds, the recurring occurrences a call uses
\* were expanded from the parsed list the same call uses; a call that fetched
\* never reads the occurrences cached before; and no entry past its expiry
\* time is returned.
C29_CacheCoherence ==
  /\ []CallsCoherent
  /\ [][FreshFetchDiscards /\ NoExpiredEntryReturned]_vars

\* two calls for the same calendar returned with different lists, one from a
\* fetch that overlapped a change of the feed, and the cache of the other
\* calendar holds an entry past its expiry time
C29_Witness ==
  /\ calls["c1"].pc = "returned" /\ calls["c2"].pc = "returned"
  /\ calls["c1"].url = calls["c2"].url
  /\ calls["c1"].allParsed # calls["c2"].allParsed
  /\ \E url \in Urls \ {calls["c1"].url} :
       Len(recurringCache[url]) = 1 /\ clock > recurringCache[url][1].expiresAt

-----------------------------------------------------------------------------
(* C30 *)

\* the places of an entry in the log of the client
Places(entry) == {i \in 1..Len(imap.log) : imap.log[i] = entry}

\* C30: in delete_mail and move_mail the lock is released at most once and
\* logout is called at most once; when the lock was acquired and logout is
\* called, the lock was released before; and when execute has returned, the
\* lock, if it was acquired, has been released exactly once, logout, if
\* connect succeeded, has been called exactly once, and what execute returned
\* is a message string, whether the operation succeeded, reported failure or
\* threw.
C30_ImapCleanup ==
  pc = "mail" =>
    /\ Cardinality(Places("release")) <= 1
    /\ Cardinality(Places("logout")) <= 1
    /\ (Places("locked") # {} /\ Places("logout") # {}) =>
         \E r \in Places("release") : \A l \in Places("logout") : r < l
    /\ exec.pc = "returned" =>
         /\ Places("locked") # {} => Cardinality(Places("release")) = 1
         /\ Places("connected") # {} => Cardinality(Places("logout")) = 1
         /\ Places("locked") = {} => Places("release") = {}
         /\ Places("connected") = {} => Places("logout") = {}
         /\ Len(imap.lock) = 0
         /\ Len(exec.result) = 1 /\ exec.result[1].returns

\* execute returned its message after the operation threw with the lock held
C30_Witness ==
  /\ pc = "mail"
  /\ exec.pc = "returned"
  /\ exec.pending = <<"throw">>
  /\ Places("locked") # {}
  /\ exec.result = <<Message("IMAP error")>>

====
